---- MODULE Spec2Model ----
(***************************************************************************)
(* Model of the Siklu EH Ansible collection: the configuration module      *)
(* (siklu_config: read, compare, apply, verify per item, batch in order)   *)
(* and the rollback-timer module (siklu_rollback), with the decoders and   *)
(* acknowledgement validators they call.                                   *)
(*                                                                         *)
(* Text is modelled at two levels.  Acknowledgement texts are sequences of *)
(* one-character strings and the validators' regular expressions are run  *)
(* over them.  "show" output is a sequence of lines, each line already     *)
(* split into its namespace, slot, key and value tokens.                   *)
(***************************************************************************)
EXTENDS Integers, Sequences, FiniteSets, TLC

VARIABLES
    items,      \* siklu_config: module.params['config'], the input batch
    dev,        \* the device's stored ip / route configuration per slot
    idx,        \* siklu_config: idx of the main loop (enumerate, from 0)
    pc,         \* siklu_config: position inside main / configure_ip / configure_route
    results,    \* siklu_config: the results list built by main
    trace,      \* history: per item, the commands sent and what each step saw
    showCmds,   \* history: commands sent by execute_show_commands
    out,        \* siklu_config: what exit_json / fail_json reported
    rb,         \* siklu_rollback: the whole state of one invocation (see RbInit)
    dec         \* one call of a decoder: its input text and what it returned

vars == <<items, dev, idx, pc, results, trace, showCmds, out, rb, dec>>

(***************************************************************************)
(* Bounds                                                                  *)
(***************************************************************************)
MaxItems == 2
MaxSlot == 1
MaxAckSlot == 12

(***************************************************************************)
(* Characters and decimal formatting                                       *)
(***************************************************************************)
UpperChars == <<"A", "B", "C", "D", "E", "F", "G", "H", "I", "J", "K", "L", "M", "N", "O", "P", "Q", "R", "S", "T", "U", "V", "W", "X", "Y", "Z">>
LowerChars == <<"a", "b", "c", "d", "e", "f", "g", "h", "i", "j", "k", "l", "m", "n", "o", "p", "q", "r", "s", "t", "u", "v", "w", "x", "y", "z">>
DigitChars == <<"0", "1", "2", "3", "4", "5", "6", "7", "8", "9">>

\* str.lower() on one character
LowerChar(c) ==
    IF \E i \in 1..Len(UpperChars) : UpperChars[i] = c
    THEN LowerChars[CHOOSE i \in 1..Len(UpperChars) : UpperChars[i] = c]
    ELSE c

\* str.lower()
LowerText(s) == [i \in 1..Len(s) |-> LowerChar(s[i])]

\* the f-string {slot} / str(n) of a non-negative integer
RECURSIVE Str(_)
Str(n) ==
    IF n < 10 THEN <<DigitChars[n + 1]>>
    ELSE Str(n \div 10) \o <<DigitChars[(n % 10) + 1]>>

\* the regular expression class \s
IsSpace(c) == c \in {" ", "\t", "\n", "\r"}

\* text s holds the literal lit starting at position i
HasAt(s, i, lit) ==
    /\ i >= 1
    /\ i + Len(lit) - 1 <= Len(s)
    /\ \A k \in 1..Len(lit) : s[i + k - 1] = lit[k]

\* Python's "sub in s"
Contains(s, sub) == \E i \in 1..(Len(s) + 1) : HasAt(s, i, sub)

\* positions i..j-1 of s are one or more whitespace characters (\s+)
SpacesBetween(s, i, j) == j > i /\ \A x \in i..(j - 1) : IsSpace(s[x])

TxtSetDoneColon == <<"s", "e", "t", " ", "d", "o", "n", "e", ":">>
TxtIp == <<"i", "p">>
TxtRoute == <<"r", "o", "u", "t", "e">>

\* re.search(rf'Set done:\s+<subject>\s+{slot}', output, re.IGNORECASE)
SetDoneSearch(output, subject, slot) ==
    LET t == LowerText(output)
        n == Len(t)
        num == Str(slot)
    IN  \E i \in 1..n :
            /\ HasAt(t, i, TxtSetDoneColon)
            /\ \E j \in (i + Len(TxtSetDoneColon) + 1)..n :
                /\ SpacesBetween(t, i + Len(TxtSetDoneColon), j)
                /\ HasAt(t, j, subject)
                /\ \E k \in (j + Len(subject) + 1)..n :
                    /\ SpacesBetween(t, j + Len(subject), k)
                    /\ HasAt(t, k, num)

validate_set_ip_response(output, slot) == SetDoneSearch(output, TxtIp, slot)

validate_set_route_response(output, slot) == SetDoneSearch(output, TxtRoute, slot)

(***************************************************************************)
(* "show ip" / "show route" output and its decoders                        *)
(*                                                                         *)
(* A line "<ns> <slot> <key> : <tokens>" is [ns, slot, key, val]; a value  *)
(* token is [str |-> s] or, when it consists of digits, [num |-> n].       *)
(***************************************************************************)
Line(ns, slot, key, val) == [ns |-> ns, slot |-> slot, key |-> key, val |-> val]
StrTok(s) == [str |-> s]
NumTok(n) == [num |-> n]
IsNum(tok) == "num" \in DOMAIN tok

\* dict[key] = value
Put(d, k, v) == (k :> v) @@ d
\* key in dict
Has(d, k) == k \in DOMAIN d
EmptyDict == <<>>

\* dict.get(key) == value, for a value that is not None
GetEq(d, k, v) == Has(d, k) /\ d[k] = v

\* the address group of r'ip-addr\s+:\s+(?:static\s+)?(\S+)'
AddrGroup(val) ==
    IF Len(val) >= 2 /\ val[1] = StrTok("static") THEN val[2].str ELSE val[1].str

\* r'^<ns>\s+(\d+)\s+<key>\s+:\s+(\S+)' matches the line
MatchTok(line, ns, key) == line.ns = ns /\ line.key = key /\ Len(line.val) >= 1
\* r'^<ns>\s+\d+\s+<key>\s+:\s+(\d+)' matches the line
MatchNum(line, ns, key) == MatchTok(line, ns, key) /\ IsNum(line.val[1])

\* one iteration of the loop of parse_ip_config; st = [config, current_slot]
ParseIpLine(st, line) ==
    IF MatchTok(line, "ip", "ip-addr")
    THEN [config |-> Put(st.config, line.slot, Put(EmptyDict, "ip", AddrGroup(line.val))),
          current_slot |-> line.slot]
    ELSE IF st.current_slot = 0 THEN st
    ELSE IF MatchNum(line, "ip", "prefix-len")
    THEN [st EXCEPT !.config = Put(@, st.current_slot,
                                   Put(@[st.current_slot], "prefix_len", line.val[1].num))]
    ELSE IF MatchNum(line, "ip", "vlan")
    THEN [st EXCEPT !.config = Put(@, st.current_slot,
                                   Put(@[st.current_slot], "vlan", line.val[1].num))]
    ELSE IF MatchTok(line, "ip", "default-gateway")
    THEN [st EXCEPT !.config = Put(@, st.current_slot,
                                   Put(@[st.current_slot], "default_gateway", line.val[1].str))]
    ELSE st

\* one iteration of the loop of parse_route_config
ParseRouteLine(st, line) ==
    IF MatchTok(line, "route", "dest")
    THEN [config |-> Put(st.config, line.slot, Put(EmptyDict, "dest", line.val[1].str)),
          current_slot |-> line.slot]
    ELSE IF st.current_slot = 0 THEN st
    ELSE IF MatchNum(line, "route", "prefix-len")
    THEN [st EXCEPT !.config = Put(@, st.current_slot,
                                   Put(@[st.current_slot], "prefix_len", line.val[1].num))]
    ELSE IF MatchTok(line, "route", "next-hop")
    THEN [st EXCEPT !.config = Put(@, st.current_slot,
                                   Put(@[st.current_slot], "next_hop", line.val[1].str))]
    ELSE st

RECURSIVE ParseIpFrom(_, _, _)
ParseIpFrom(lines, i, st) ==
    IF i > Len(lines) THEN st.config
    ELSE ParseIpFrom(lines, i + 1, ParseIpLine(st, lines[i]))

RECURSIVE ParseRouteFrom(_, _, _)
ParseRouteFrom(lines, i, st) ==
    IF i > Len(lines) THEN st.config
    ELSE ParseRouteFrom(lines, i + 1, ParseRouteLine(st, lines[i]))

ParseStart == [config |-> EmptyDict, current_slot |-> 0]

parse_ip_config(lines) == ParseIpFrom(lines, 1, ParseStart)

parse_route_config(lines) == ParseRouteFrom(lines, 1, ParseStart)

(***************************************************************************)
(* Configuration items and their validators                                *)
(***************************************************************************)
MaxPrefixLen == 32
MaxVlan == 4094

\* the addresses the batches ask for, and a different one the device may hold
WantAddr == "192.168.1.100"
OtherAddr == "192.168.1.200"
WantDest == "10.0.0.0"
OtherDest == "10.9.0.0"
WantHop == "192.168.1.1"

IpItem(s) ==
    [type |-> "ip", slot |-> s, ip_address |-> WantAddr, prefix_len |-> 24, vlan |-> 0]
RouteItem(s) ==
    [type |-> "route", slot |-> s, dest |-> WantDest, prefix_len |-> 8, next_hop |-> WantHop]

\* items that main or a validator rejects, one per rejecting branch
BadItems ==
    { [slot |-> 1, ip_address |-> WantAddr, prefix_len |-> 24, vlan |-> 0],
      [type |-> "vlan", slot |-> 1],
      [type |-> "ip", slot |-> 1, ip_address |-> WantAddr, prefix_len |-> 24],
      [type |-> "ip", slot |-> -1, ip_address |-> WantAddr, prefix_len |-> 24, vlan |-> 0],
      [type |-> "ip", slot |-> 1, ip_address |-> WantAddr, prefix_len |-> 33, vlan |-> 0],
      [type |-> "ip", slot |-> 1, ip_address |-> WantAddr, prefix_len |-> 24, vlan |-> 4095],
      [type |-> "route", slot |-> 1, prefix_len |-> 8, next_hop |-> WantHop],
      [type |-> "route", slot |-> -1, dest |-> WantDest, prefix_len |-> 8, next_hop |-> WantHop],
      [type |-> "route", slot |-> 1, dest |-> WantDest, prefix_len |-> -1, next_hop |-> WantHop] }

Slots == 0..MaxSlot

ItemSet == {IpItem(s) : s \in Slots} \cup {RouteItem(s) : s \in Slots} \cup BadItems

\* first missing field of required_fields, or "" when none is missing
FirstMissing(item, required) ==
    IF \A i \in 1..Len(required) : required[i] \in DOMAIN item THEN ""
    ELSE required[CHOOSE i \in 1..Len(required) :
                      /\ required[i] \notin DOMAIN item
                      /\ \A j \in 1..(i - 1) : required[j] \in DOMAIN item]

\* faulty variant of validate_ip_config_item: the vlan range is not checked
validate_ip_config_item_NoVlan(item) ==
    IF FirstMissing(item, <<"slot", "ip_address", "prefix_len", "vlan">>) # "" THEN "missing"
    ELSE IF item.slot < 0 THEN "slot"
    ELSE IF ~(0 <= item.prefix_len /\ item.prefix_len <= MaxPrefixLen) THEN "prefix_len"
    ELSE ""

\* validate_ip_config_item: the error message kind, "" when valid
validate_ip_config_item(item) ==
    IF FirstMissing(item, <<"slot", "ip_address", "prefix_len", "vlan">>) # "" THEN "missing"
    ELSE IF item.slot < 0 THEN "slot"
    ELSE IF ~(0 <= item.prefix_len /\ item.prefix_len <= MaxPrefixLen) THEN "prefix_len"
    ELSE IF ~(0 <= item.vlan /\ item.vlan <= MaxVlan) THEN "vlan"
    ELSE ""

\* validate_route_config_item: the error message kind, "" when valid
validate_route_config_item(item) ==
    IF FirstMissing(item, <<"slot", "dest", "prefix_len", "next_hop">>) # "" THEN "missing"
    ELSE IF item.slot < 0 THEN "slot"
    ELSE IF ~(0 <= item.prefix_len /\ item.prefix_len <= MaxPrefixLen) THEN "prefix_len"
    ELSE ""

\* item.get('type'), None as ""
TypeOf(item) == IF "type" \in DOMAIN item THEN item.type ELSE ""

(***************************************************************************)
(* The device (environment): one stored entry per type and slot            *)
(***************************************************************************)
\* an entry: a = address / destination, p = prefix length, x = vlan / next hop
Unset(type) == [set |-> FALSE, a |-> "", p |-> 0, x |-> IF type = "ip" THEN NumTok(0) ELSE StrTok("")]
Entry(a, p, x) == [set |-> TRUE, a |-> a, p |-> p, x |-> x]

\* the entry a device stores when it applies the item's "set" command
EntryOf(item) ==
    IF item.type = "ip"
    THEN Entry(item.ip_address, item.prefix_len, NumTok(item.vlan))
    ELSE Entry(item.dest, item.prefix_len, StrTok(item.next_hop))

DevEmpty == [t \in {"ip", "route"} |-> [s \in Slots |-> Unset(t)]]
DevWanted ==
    [t \in {"ip", "route"} |->
        [s \in Slots |-> EntryOf(IF t = "ip" THEN IpItem(s) ELSE RouteItem(s))]]
DevOther ==
    [t \in {"ip", "route"} |->
        [s \in Slots |-> IF t = "ip" THEN Entry(OtherAddr, 16, NumTok(100))
                         ELSE Entry(OtherDest, 8, StrTok(WantHop))]]

\* the text the device prints for "show <type> <slot>"; static: whether the
\* address carries the "static" qualifier
ShowText(d, type, s, static) ==
    LET e == d[type][s] IN
    IF ~e.set THEN <<>>
    ELSE IF type = "ip"
    THEN << Line("ip", s, "ip-addr",
                 (IF static THEN <<StrTok("static")>> ELSE <<>>) \o <<StrTok(e.a)>>),
            Line("ip", s, "prefix-len", <<NumTok(e.p)>>),
            Line("ip", s, "vlan", <<e.x>>),
            Line("ip", s, "default-gateway", <<StrTok("0.0.0.0")>>) >>
    ELSE << Line("route", s, "dest", <<StrTok(e.a)>>),
            Line("route", s, "prefix-len", <<NumTok(e.p)>>),
            Line("route", s, "next-hop", <<e.x>>) >>

TxtSetDoneIp == <<"S", "e", "t", " ", "d", "o", "n", "e", ":", " ", "i", "p", " ">>
TxtSetDoneRoute == <<"S", "e", "t", " ", "d", "o", "n", "e", ":", " ", "r", "o", "u", "t", "e", " ">>
TxtFailed == <<"%", " ", "f", "a", "i", "l", "e", "d">>

\* the device's acknowledgement of a "set" for slot t
AckText(type, t) == (IF type = "ip" THEN TxtSetDoneIp ELSE TxtSetDoneRoute) \o Str(t)

(***************************************************************************)
(* siklu_config: main, configure_ip, configure_route                       *)
(***************************************************************************)
RECURSIVE SeqsUpTo(_, _)
SeqsUpTo(S, n) ==
    IF n = 0 THEN {<<>>}
    ELSE LET shorter == SeqsUpTo(S, n - 1)
         IN  shorter \cup {Append(q, x) : q \in {r \in shorter : Len(r) = n - 1}, x \in S}

\* the item the loop of main is at (enumerate: idx counts from 0)
Cur == items[idx + 1]

\* f'show ip {slot}' / f'show route {slot}'
ShowCmd(type, slot) == [op |-> "show", type |-> type, slot |-> slot]
\* faulty variant of SetCmd: the command is built for slot 0 whatever the item's slot
SetCmd_SlotZero(item) ==
    [op |-> "set", type |-> item.type, slot |-> 0, entry |-> EntryOf(item)]

\* f'set ip {slot} ...' / f'set route {slot} ...'
SetCmd(item) == [op |-> "set", type |-> item.type, slot |-> item.slot, entry |-> EntryOf(item)]

\* get_ip_info / get_route_info: the command sent for a slot
get_info_cmd(item) == ShowCmd(item.type, item.slot)

\* get_ip_info / get_route_info: the decoded reply
get_info_parse(type, text) ==
    IF type = "ip" THEN parse_ip_config(text) ELSE parse_route_config(text)

\* config.get(slot, {})
SlotOf(config, slot) == IF Has(config, slot) THEN config[slot] ELSE EmptyDict

\* the comparison of configure_ip / configure_route on every field of the item
FieldsEqual(rec, item) ==
    IF item.type = "ip"
    THEN /\ GetEq(rec, "ip", item.ip_address)
         /\ GetEq(rec, "prefix_len", item.prefix_len)
         /\ GetEq(rec, "vlan", item.vlan)
    ELSE /\ GetEq(rec, "dest", item.dest)
         /\ GetEq(rec, "prefix_len", item.prefix_len)
         /\ GetEq(rec, "next_hop", item.next_hop)

\* faulty variant of AlreadyConfigured: the slot record is looked up one slot off
AlreadyConfigured_OffByOne(config, item) ==
    Has(config, item.slot + 1) /\ FieldsEqual(config[item.slot + 1], item)

\* "current and (...)" with current = current_config.get(slot)
AlreadyConfigured(config, item) ==
    Has(config, item.slot) /\ DOMAIN config[item.slot] # {} /\ FieldsEqual(config[item.slot], item)

\* faulty variant of Verified: the mismatch test joins its comparisons with "and", so
\* one equal field is enough to pass
Verified_AnyField(config, item) ==
    LET rec == SlotOf(config, item.slot) IN
    IF item.type = "ip"
    THEN \/ GetEq(rec, "ip", item.ip_address)
         \/ GetEq(rec, "prefix_len", item.prefix_len)
         \/ GetEq(rec, "vlan", item.vlan)
    ELSE \/ GetEq(rec, "dest", item.dest)
         \/ GetEq(rec, "prefix_len", item.prefix_len)
         \/ GetEq(rec, "next_hop", item.next_hop)

\* the verification with updated = updated_config.get(slot, {})
Verified(config, item) == FieldsEqual(SlotOf(config, item.slot), item)

\* faulty variant of AckAccepted: the reply of "set" is not examined
AckAccepted_Ignored(item, text) == TRUE

\* the validator configure_ip / configure_route applies to the reply of "set"
AckAccepted(item, text) ==
    IF item.type = "ip" THEN validate_set_ip_response(text, item.slot)
    ELSE validate_set_route_response(text, item.slot)

\* faulty variant of Result: a failed result of an item reports changed
Result_ChangedOnFail(i, type, slot, changed, failed) ==
    [index |-> i, type |-> type, slot |-> slot, changed |-> changed \/ failed, failed |-> failed]

Result(i, type, slot, changed, failed) ==
    [index |-> i, type |-> type, slot |-> slot, changed |-> changed, failed |-> failed]

\* history of one item: the commands sent for it; the entry the device held
\* for its slot when the item began; r1 / r2: "none", "read" or "tfail" for the
\* first and the verifying read, with the decoded slot record cur1 / cur2;
\* ack: "none", "own" (acknowledgement naming the item's slot), "other"
\* (naming another slot), "error" or "tfail"; stored: the device stored the
\* "set"; ackOk: the validator accepted the acknowledgement
NoTrace ==
    [cmds |-> <<>>, dev0 |-> Unset("ip"), r1 |-> "none", cur1 |-> EmptyDict, ack |-> "none",
     stored |-> FALSE, ackOk |-> FALSE, r2 |-> "none", cur2 |-> EmptyDict]

\* the device's reply to a "show" command
DeviceShow(d, cmd, static) == ShowText(d, cmd.type, cmd.slot, static)

\* the device's state after it stores a "set" command
DeviceSet(d, cmd) == [d EXCEPT ![cmd.type][cmd.slot] = cmd.entry]


\* main, lines 398-402 and 404-413: append the item's result and go on
Emit(res) ==
    /\ results' = Append(results, res)
    /\ out' = [out EXCEPT !.changed = @ \/ res.changed]
    /\ idx' = idx + 1
    /\ pc' = "next"

ConfigStart ==
    /\ items \in SeqsUpTo(ItemSet, MaxItems)
    /\ dev \in {DevEmpty, DevWanted, DevOther}
    /\ idx = 0
    /\ pc = "next"
    /\ results = <<>>
    /\ trace = <<>>
    /\ showCmds = <<>>
    /\ out = [status |-> "running", changed |-> FALSE, hasResults |-> FALSE]

\* main: the top of the loop body for one item, up to the call of configure_*
BeginItem ==
    /\ pc = "next"
    /\ idx < Len(items)
    /\ trace' = Append(trace,
                       IF TypeOf(Cur) \in {"ip", "route"} /\ Cur.slot \in Slots
                       THEN [NoTrace EXCEPT !.dev0 = dev[Cur.type][Cur.slot]] ELSE NoTrace)
    /\ LET t == TypeOf(Cur)
           err == IF t = "ip" THEN validate_ip_config_item(Cur)
                  ELSE IF t = "route" THEN validate_route_config_item(Cur)
                  ELSE "unknown"
       IN  IF t = ""
           THEN \* fail_json leaves the module at once
                /\ out' = [out EXCEPT !.status = "failed"]
                /\ pc' = "exited"
                /\ UNCHANGED <<results, idx>>
           ELSE IF err # ""
           THEN Emit(Result(idx, t, Cur.slot, FALSE, TRUE))
           ELSE /\ pc' = "read"
                /\ UNCHANGED <<results, idx, out>>
    /\ UNCHANGED <<items, dev, showCmds, rb, dec>>

\* history: the current item's trace with the command and what the step saw
Sent(cmd, seen) ==
    [trace EXCEPT ![idx + 1] =
        [f \in DOMAIN @ |-> IF f = "cmds" THEN Append(@.cmds, cmd)
                            ELSE IF f \in DOMAIN seen THEN seen[f] ELSE @[f]]]

\* configure_*: the first read and the idempotency check
ReadCurrent ==
    /\ pc = "read"
    /\ \E tfail \in BOOLEAN, static \in BOOLEAN :
        LET cmd == get_info_cmd(Cur) IN
        IF tfail
        THEN /\ trace' = Sent(cmd, [r1 |-> "tfail"])
             /\ Emit(Result(idx, Cur.type, Cur.slot, FALSE, TRUE))
        ELSE LET config == get_info_parse(Cur.type, DeviceShow(dev, cmd, static))
             IN  /\ trace' = Sent(cmd, [r1 |-> "read", cur1 |-> SlotOf(config, Cur.slot)])
                 /\ IF AlreadyConfigured(config, Cur)
                    THEN Emit(Result(idx, Cur.type, Cur.slot, FALSE, FALSE))
                    ELSE /\ pc' = "apply"
                         /\ UNCHANGED <<results, idx, out>>
    /\ UNCHANGED <<items, dev, showCmds, rb, dec>>

\* what the device may do with a "set" command: store it or not, and answer
\* with an acknowledgement naming slot t, an error text, or not at all
ApplyModes ==
    [kind : {"ack"}, stored : BOOLEAN, t : 0..MaxAckSlot]
        \cup [kind : {"error"}, stored : {FALSE}, t : {0}]
        \cup [kind : {"tfail"}, stored : BOOLEAN, t : {0}]

\* configure_*: the "set" command and the check of its acknowledgement
Apply ==
    /\ pc = "apply"
    /\ \E m \in ApplyModes :
        LET cmd == SetCmd(Cur)
            text == IF m.kind = "ack" THEN AckText(cmd.type, m.t) ELSE TxtFailed
            ok == m.kind # "tfail" /\ AckAccepted(Cur, text)
            seen == IF m.kind = "ack" THEN (IF m.t = cmd.slot THEN "own" ELSE "other")
                    ELSE m.kind
        IN  /\ dev' = IF m.stored THEN DeviceSet(dev, cmd) ELSE dev
            /\ trace' = Sent(cmd, [ack |-> seen, stored |-> m.stored, ackOk |-> ok])
            /\ IF ok
               THEN /\ pc' = "verify"
                    /\ UNCHANGED <<results, idx, out>>
               ELSE Emit(Result(idx, Cur.type, Cur.slot, FALSE, TRUE))
    /\ UNCHANGED <<items, showCmds, rb, dec>>

\* configure_*: the read after the "set" and the verification
Verify ==
    /\ pc = "verify"
    /\ \E tfail \in BOOLEAN, static \in BOOLEAN :
        LET cmd == get_info_cmd(Cur) IN
        IF tfail
        THEN /\ trace' = Sent(cmd, [r2 |-> "tfail"])
             /\ Emit(Result(idx, Cur.type, Cur.slot, FALSE, TRUE))
        ELSE LET config == get_info_parse(Cur.type, DeviceShow(dev, cmd, static))
             IN  /\ trace' = Sent(cmd, [r2 |-> "read", cur2 |-> SlotOf(config, Cur.slot)])
                 /\ IF Verified(config, Cur)
                    THEN Emit(Result(idx, Cur.type, Cur.slot, TRUE, FALSE))
                    ELSE Emit(Result(idx, Cur.type, Cur.slot, FALSE, TRUE))
    /\ UNCHANGED <<items, dev, showCmds, rb, dec>>

\* module.params['show']: nothing, one slot, or a whole table (slot None as -1)
ShowSets == { <<>>, <<[type |-> "ip", slot |-> 1]>>, <<[type |-> "route", slot |-> -1]>>,
              <<[type |-> "rf", slot |-> -1]>> }

\* execute_show_commands: the commands it sends
RECURSIVE execute_show_commands(_)
execute_show_commands(show) ==
    IF show = <<>> THEN <<>>
    ELSE (IF Head(show).type \in {"ip", "route"}
          THEN <<ShowCmd(Head(show).type, Head(show).slot)>> ELSE <<>>)
         \o execute_show_commands(Tail(show))

\* main after the loop: the show commands, then fail_json or exit_json
Finish ==
    /\ pc = "next"
    /\ idx = Len(items)
    /\ \E show \in ShowSets : showCmds' = execute_show_commands(show)
    /\ out' = [out EXCEPT !.status = IF \E k \in 1..Len(results) : results[k].failed
                                     THEN "failed" ELSE "ok",
                          !.hasResults = TRUE]
    /\ pc' = "exited"
    /\ UNCHANGED <<items, dev, idx, results, trace, rb, dec>>

(***************************************************************************)
(* Sentinel and integer conversion, and the "show rollback" decoder        *)
(*                                                                         *)
(* Texts are sequences of characters; an optional value (None or a value)  *)
(* is the empty sequence or a one-element sequence.                        *)
(***************************************************************************)
None == <<>>
Some(v) == <<v>>

\* str.strip()
Strip(s) ==
    IF \A i \in 1..Len(s) : IsSpace(s[i]) THEN <<>>
    ELSE LET lo == CHOOSE i \in 1..Len(s) :
                       ~IsSpace(s[i]) /\ \A j \in 1..(i - 1) : IsSpace(s[j])
             hi == CHOOSE i \in 1..Len(s) :
                       ~IsSpace(s[i]) /\ \A j \in (i + 1)..Len(s) : IsSpace(s[j])
         IN  SubSeq(s, lo, hi)

TxtNA == <<"n", "/", "a">>
TxtDefault == <<"d", "e", "f", "a", "u", "l", "t">>
TxtRollbackTimeout == <<"r", "o", "l", "l", "b", "a", "c", "k", " ", "t", "i", "m", "e", "o", "u", "t">>
TxtNotStarted == <<"n", "o", "t", " ", "s", "t", "a", "r", "t", "e", "d">>

\* faulty variant of normalize_empty_value: the sentinels in lower case only
normalize_empty_value_CaseSensitive(value) ==
    IF Strip(value) = <<>> THEN None
    ELSE IF Strip(value) \in {TxtNA, TxtDefault} THEN None
    ELSE Some(Strip(value))

\* _normalize_empty_value: None, or the stripped text
normalize_empty_value(value) ==
    IF Strip(value) = <<>> THEN None
    ELSE IF LowerText(Strip(value)) \in {TxtNA, TxtDefault} THEN None
    ELSE Some(Strip(value))

IsDigit(c) == \E i \in 1..Len(DigitChars) : DigitChars[i] = c
DigitVal(c) == (CHOOSE i \in 1..Len(DigitChars) : DigitChars[i] = c) - 1

RECURSIVE DigitsVal(_)
DigitsVal(s) ==
    IF s = <<>> THEN 0 ELSE DigitsVal(SubSeq(s, 1, Len(s) - 1)) * 10 + DigitVal(s[Len(s)])

\* a digit string of a Python numeric literal: digits, single "_" between digits
IsDigitString(s) ==
    /\ s # <<>>
    /\ IsDigit(s[1]) /\ IsDigit(s[Len(s)])
    /\ \A i \in 1..Len(s) : IsDigit(s[i]) \/ (s[i] = "_" /\ IsDigit(s[i + 1]))

\* the digits of a digit string, "_" removed
RECURSIVE DigitsOnly(_)
DigitsOnly(s) ==
    IF s = <<>> THEN <<>>
    ELSE IF s[1] = "_" THEN DigitsOnly(Tail(s)) ELSE <<s[1]>> \o DigitsOnly(Tail(s))

\* int(text): an optional sign and a digit string, else ValueError (None)
PyInt(s) ==
    LET signed == Len(s) >= 1 /\ s[1] \in {"+", "-"}
        digits == IF signed THEN Tail(s) ELSE s
    IN  IF ~IsDigitString(digits) THEN None
        ELSE Some(IF signed /\ s[1] = "-" THEN 0 - DigitsVal(DigitsOnly(digits))
                  ELSE DigitsVal(DigitsOnly(digits)))

\* _convert_to_int
convert_to_int(value) ==
    IF normalize_empty_value(value) = None THEN None
    ELSE PyInt(normalize_empty_value(value)[1])

\* a float as mantissa m and decimal exponent e (m * 10^e, m without
\* trailing zeros), or an infinity (m is its sign) or nan
RECURSIVE FloatNum(_, _)
FloatNum(m, e) ==
    IF m = 0 THEN [kind |-> "num", m |-> 0, e |-> 0]
    ELSE IF m % 10 = 0 THEN FloatNum(m \div 10, e + 1)
    ELSE [kind |-> "num", m |-> m, e |-> e]

\* position of the first character of s that is in the set cs, 0 when none
FirstOf(s, cs) ==
    IF \E i \in 1..Len(s) : s[i] \in cs
    THEN CHOOSE i \in 1..Len(s) : s[i] \in cs /\ \A j \in 1..(i - 1) : s[j] \notin cs
    ELSE 0

\* float(text): sign, then inf / infinity / nan in any case, or digits with
\* an optional fraction and an optional exponent; else ValueError (None)
PyFloat(s) ==
    LET signed == Len(s) >= 1 /\ s[1] \in {"+", "-"}
        sign == IF signed /\ s[1] = "-" THEN 0 - 1 ELSE 1
        body == LowerText(IF signed THEN Tail(s) ELSE s)
        ePos == FirstOf(body, {"e"})
        mant == IF ePos = 0 THEN body ELSE SubSeq(body, 1, ePos - 1)
        expo == IF ePos = 0 THEN <<"0">> ELSE SubSeq(body, ePos + 1, Len(body))
        dot == FirstOf(mant, {"."})
        whole == IF dot = 0 THEN mant ELSE SubSeq(mant, 1, dot - 1)
        frac == IF dot = 0 THEN <<>> ELSE SubSeq(mant, dot + 1, Len(mant))
    IN  IF body \in {<<"i", "n", "f">>, <<"i", "n", "f", "i", "n", "i", "t", "y">>} THEN Some([kind |-> "inf", m |-> sign, e |-> 0])
        ELSE IF body = <<"n", "a", "n">> THEN Some([kind |-> "nan", m |-> 0, e |-> 0])
        ELSE IF /\ PyInt(expo) # None
                /\ whole = <<>> \/ IsDigitString(whole)
                /\ frac = <<>> \/ IsDigitString(frac)
                /\ whole \o frac # <<>>
        THEN Some(FloatNum(sign * DigitsVal(DigitsOnly(whole \o frac)),
                           PyInt(expo)[1] - Len(DigitsOnly(frac))))
        ELSE None

\* _convert_to_float
convert_to_float(value) ==
    IF normalize_empty_value(value) = None THEN None
    ELSE PyFloat(normalize_empty_value(value)[1])

\* _convert_to_bool
convert_to_bool(value) ==
    IF normalize_empty_value(value) = None THEN None
    ELSE IF LowerText(normalize_empty_value(value)[1]) = <<"t", "r", "u", "e">> THEN Some(TRUE)
    ELSE IF LowerText(normalize_empty_value(value)[1]) = <<"f", "a", "l", "s", "e">> THEN Some(FALSE)
    ELSE None

\* faulty variant of ParseRollbackLine: "not started" clears the timeout only
ParseRollbackLine_StaleActive(result, raw) ==
    LET line == Strip(raw) IN
    IF line = <<>> \/ line[1] = "#" THEN result
    ELSE IF ~\E i \in 1..Len(line) : line[i] = ":" THEN result
    ELSE LET c == CHOOSE i \in 1..Len(line) :
                      line[i] = ":" /\ \A j \in 1..(i - 1) : line[j] # ":"
             key == LowerText(Strip(SubSeq(line, 1, c - 1)))
             value == Strip(SubSeq(line, c + 1, Len(line)))
         IN  IF ~Contains(key, TxtRollbackTimeout) THEN result
             ELSE IF LowerText(value) = TxtNotStarted
             THEN [result EXCEPT !.timeout = None]
             ELSE IF convert_to_int(value) # None
             THEN [active |-> TRUE, timeout |-> convert_to_int(value)]
             ELSE result

\* one iteration of the loop of parse_rollback_status
ParseRollbackLine(result, raw) ==
    LET line == Strip(raw) IN
    IF line = <<>> \/ line[1] = "#" THEN result
    ELSE IF ~\E i \in 1..Len(line) : line[i] = ":" THEN result
    ELSE LET c == CHOOSE i \in 1..Len(line) :
                      line[i] = ":" /\ \A j \in 1..(i - 1) : line[j] # ":"
             key == LowerText(Strip(SubSeq(line, 1, c - 1)))
             value == Strip(SubSeq(line, c + 1, Len(line)))
         IN  IF ~Contains(key, TxtRollbackTimeout) THEN result
             ELSE IF LowerText(value) = TxtNotStarted
             THEN [active |-> FALSE, timeout |-> None]
             ELSE IF convert_to_int(value) # None
             THEN [active |-> TRUE, timeout |-> convert_to_int(value)]
             ELSE result

RECURSIVE ParseRollbackFrom(_, _, _)
ParseRollbackFrom(lines, i, result) ==
    IF i > Len(lines) THEN result
    ELSE ParseRollbackFrom(lines, i + 1, ParseRollbackLine(result, lines[i]))

parse_rollback_status(lines) ==
    ParseRollbackFrom(lines, 1, [active |-> FALSE, timeout |-> None])

(***************************************************************************)
(* siklu_rollback: main                                                    *)
(***************************************************************************)
MaxTimeout == 86400
MaxInvocations == 2

\* module.params['timeout']: None, or an integer in or out of range
TimeoutChoices == {None, Some(-1), Some(0), Some(300), Some(MaxTimeout), Some(MaxTimeout + 1)}
\* the device's timer: not started (None) or running with a timeout
RbDevChoices == {None, Some(0), Some(300), Some(600)}

TxtShowRollback == <<"r", "o", "l", "l", "b", "a", "c", "k", " ", "t", "i", "m", "e", "o", "u", "t", " ", " ", " ", " ", " ", " ", " ", " ", " ", " ", " ", " ", " ", " ", " ", " ", " ", " ", " ", ":", " ">>
TxtArmDone == <<"S", "e", "t", " ", "d", "o", "n", "e", ":", " ", "r", "o", "l", "l", "b", "a", "c", "k", "t", "i", "m", "e", "o", "u", "t", ":", " ">>
TxtArmEcho == <<"R", "o", "l", "l", "b", "a", "c", "k", "T", "i", "m", "e", "o", "u", "t", ":", " ">>
TxtSetDone == <<"s", "e", "t", " ", "d", "o", "n", "e">>
TxtRollbackTimeoutEcho == <<"r", "o", "l", "l", "b", "a", "c", "k", "t", "i", "m", "e", "o", "u", "t">>
TxtRollbackCleared == <<"r", "o", "l", "l", "b", "a", "c", "k", " ", "c", "l", "e", "a", "r", "e", "d">>
TxtClearedCaps == <<"R", "o", "l", "l", "b", "a", "c", "k", " ", "C", "l", "e", "a", "r", "e", "d">>

\* the text the device prints for "show rollback"
RbShowText(d) ==
    << TxtShowRollback \o (IF d = None THEN TxtNotStarted ELSE Str(d[1])) >>

\* what the device may answer to "set rollback timeout <n>": [text, stored]
ArmReplies(n) ==
    { [text |-> TxtArmDone \o Str(n), stored |-> TRUE],
      [text |-> TxtArmEcho \o Str(n), stored |-> TRUE],
      [text |-> TxtFailed, stored |-> FALSE],
      [text |-> <<>>, stored |-> FALSE] }

\* what the device may answer to "clear rollback": [text, stored]
ClearReplies ==
    { [text |-> TxtRollbackCleared, stored |-> TRUE],
      [text |-> TxtClearedCaps, stored |-> TRUE],
      [text |-> TxtFailed, stored |-> FALSE] }

\* main, line 194: the arm acknowledgement is accepted
ArmAccepted(response) ==
    Contains(LowerText(response), TxtSetDone)
        \/ Contains(LowerText(response), TxtRollbackTimeoutEcho)

\* faulty variant of ClearAccepted: the marker is looked for in the lower-cased reply
ClearAccepted_AnyCase(response) == Contains(LowerText(response), TxtRollbackCleared)

\* main, line 215: the clear acknowledgement is accepted
ClearAccepted(response) == Contains(response, TxtRollbackCleared)

\* faulty variant of RbNoOp: the "not" of the absent branch is missing
RbNoOp_NotDropped(state, timeout, status) ==
    IF state = "present" THEN status.active /\ status.timeout = timeout
    ELSE status.active

\* main, lines 183 and 205: the status read already equals the target
RbNoOp(state, timeout, status) ==
    IF state = "present" THEN status.active /\ status.timeout = timeout
    ELSE ~status.active

\* faulty variant of RbParamsValid: the range check excludes its two bounds
RbParamsValid_Strict(state, timeout) ==
    /\ (state = "present" => timeout # None)
    /\ (timeout # None => (0 < timeout[1] /\ timeout[1] < MaxTimeout))

\* AnsibleModule(required_if=...) and main, line 167: the parameters are accepted
RbParamsValid(state, timeout) ==
    /\ (state = "present" => timeout # None)
    /\ (timeout # None => (0 <= timeout[1] /\ timeout[1] <= MaxTimeout))

\* faulty variant of PredictedTimeout: the requested timeout whatever the target
PredictedTimeout_Requested(state, timeout) == timeout

\* main, line 227: the final timeout predicted in check mode
PredictedTimeout(state, timeout) == IF state = "present" THEN timeout ELSE None

RbNoResult == [status |-> "none", changed |-> FALSE, timeout |-> None]

\* a fresh invocation n of the module on a device whose timer is d
RbStart(n, d, state, timeout, check) ==
    [ inv |-> n, state |-> state, timeout |-> timeout, check_mode |-> check,
      dev |-> d, pc |-> "start",
      status |-> [active |-> FALSE, timeout |-> None],   \* current_status once read
      sent |-> <<>>,          \* history: the commands of this invocation
      ack |-> "none",         \* history: the code took the reply as "good" / "bad"
      reply |-> None,         \* history: the device's reply to arm or clear
      tfail |-> FALSE,        \* history: a command raised a transport failure
      read1 |-> FALSE,        \* history: the first status read returned text
      dev0 |-> None,          \* history: the device's timer at that read
      prev |-> [active |-> FALSE, timeout |-> None],
                              \* history: the status the invocation before decoded
      result |-> RbNoResult ]

RbFirst ==
    \E d \in RbDevChoices, state \in {"present", "absent"},
       timeout \in TimeoutChoices, check \in BOOLEAN :
        rb = RbStart(1, d, state, timeout, check)

RbFail(r) == [r EXCEPT !.pc = "exited", !.result = [RbNoResult EXCEPT !.status = "failed"]]
RbExit(r, changed, timeout) ==
    [r EXCEPT !.pc = "exited",
              !.result = [status |-> "ok", changed |-> changed, timeout |-> timeout]]

\* siklu_rollback touches nothing of a siklu_config run
ConfigIdle == UNCHANGED <<items, dev, idx, pc, results, trace, showCmds, out, dec>>

\* argument checks of AnsibleModule and the range check of main
RbValidate ==
    /\ rb.pc = "start"
    /\ ConfigIdle
    /\ rb' = IF RbParamsValid(rb.state, rb.timeout) THEN [rb EXCEPT !.pc = "read"]
             ELSE RbFail(rb)

\* faulty variant of RbRead: from the second invocation on, the status of the
\* invocation before is used and the device is not read
RbRead_Cached ==
    /\ rb.pc = "read"
    /\ ConfigIdle
    /\ \E tfail \in BOOLEAN :
        LET cached == rb.inv > 1
            r == IF cached THEN rb ELSE [rb EXCEPT !.sent = Append(@, "show rollback")] IN
        IF tfail /\ ~cached THEN rb' = RbFail([r EXCEPT !.tfail = TRUE])
        ELSE LET st == IF cached THEN rb.prev ELSE parse_rollback_status(RbShowText(rb.dev))
                 r2 == [r EXCEPT !.status = st, !.read1 = TRUE, !.dev0 = rb.dev]
             IN  IF RbNoOp(rb.state, rb.timeout, st)
                 THEN rb' = IF rb.check_mode
                            THEN RbExit(r2, FALSE, PredictedTimeout(rb.state, rb.timeout))
                            ELSE [r2 EXCEPT !.pc = "final", !.result.changed = FALSE]
                 ELSE IF rb.check_mode
                 THEN rb' = RbExit(r2, TRUE, PredictedTimeout(rb.state, rb.timeout))
                 ELSE rb' = [r2 EXCEPT !.pc = IF rb.state = "present" THEN "arm" ELSE "clear"]

\* get_rollback_status and the decision taken on it; in check mode the rest
\* of main follows without another command
RbRead ==
    /\ rb.pc = "read"
    /\ ConfigIdle
    /\ \E tfail \in BOOLEAN :
        LET r == [rb EXCEPT !.sent = Append(@, "show rollback")] IN
        IF tfail THEN rb' = RbFail([r EXCEPT !.tfail = TRUE])
        ELSE LET st == parse_rollback_status(RbShowText(rb.dev))
                 r2 == [r EXCEPT !.status = st, !.read1 = TRUE, !.dev0 = rb.dev]
             IN  IF RbNoOp(rb.state, rb.timeout, st)
                 THEN rb' = IF rb.check_mode
                            THEN RbExit(r2, FALSE, PredictedTimeout(rb.state, rb.timeout))
                            ELSE [r2 EXCEPT !.pc = "final", !.result.changed = FALSE]
                 ELSE IF rb.check_mode
                 THEN rb' = RbExit(r2, TRUE, PredictedTimeout(rb.state, rb.timeout))
                 ELSE rb' = [r2 EXCEPT !.pc = IF rb.state = "present" THEN "arm" ELSE "clear"]

\* set_rollback and the check of its acknowledgement
RbArm ==
    /\ rb.pc = "arm"
    /\ ConfigIdle
    /\ LET r == [rb EXCEPT !.sent = Append(@, "set rollback timeout")] IN
       \/ rb' = RbFail([r EXCEPT !.tfail = TRUE])
       \/ \E reply \in ArmReplies(rb.timeout[1]) :
            LET r2 == [r EXCEPT !.dev = IF reply.stored THEN rb.timeout ELSE @,
                                !.reply = Some(reply.text)] IN
            IF ArmAccepted(reply.text)
            THEN rb' = [r2 EXCEPT !.ack = "good", !.pc = "final", !.result.changed = TRUE]
            ELSE rb' = RbFail([r2 EXCEPT !.ack = "bad"])

\* clear_rollback and the check of its acknowledgement
RbClear ==
    /\ rb.pc = "clear"
    /\ ConfigIdle
    /\ LET r == [rb EXCEPT !.sent = Append(@, "clear rollback")] IN
       \/ rb' = RbFail([r EXCEPT !.tfail = TRUE])
       \/ \E reply \in ClearReplies :
            LET r2 == [r EXCEPT !.dev = IF reply.stored THEN None ELSE @,
                                !.reply = Some(reply.text)] IN
            IF ClearAccepted(reply.text)
            THEN rb' = [r2 EXCEPT !.ack = "good", !.pc = "final", !.result.changed = TRUE]
            ELSE rb' = RbFail([r2 EXCEPT !.ack = "bad"])

\* the final get_rollback_status and exit_json
RbFinal ==
    /\ rb.pc = "final"
    /\ ConfigIdle
    /\ LET r == [rb EXCEPT !.sent = Append(@, "show rollback")] IN
       \/ rb' = RbFail([r EXCEPT !.tfail = TRUE])
       \/ rb' = RbExit(r, rb.result.changed, parse_rollback_status(RbShowText(rb.dev)).timeout)

\* the module is run again on the same device: a new process, which keeps
\* nothing of the run before; the device's timer may have run out meanwhile
RbInvoke ==
    /\ rb.pc = "exited"
    /\ ConfigIdle
    /\ rb.inv < MaxInvocations
    /\ \E state \in {"present", "absent"}, timeout \in TimeoutChoices, check \in BOOLEAN,
          d \in {rb.dev, None} :
        rb' = [RbStart(rb.inv + 1, d, state, timeout, check) EXCEPT !.prev = rb.status]

RbIdle == RbStart(0, None, "absent", None, FALSE)

(***************************************************************************)
(* Decoder calls                                                           *)
(*                                                                         *)
(* A decoder is a pure function of the text it is given.  A call is the    *)
(* record dec: the decoder's name, the table the text was printed from     *)
(* (src), the text (in), and, once the call is over (done), what it         *)
(* returned (out).                                                         *)
(***************************************************************************)
DecIdle == [fn |-> "none", src |-> <<>>, in |-> <<>>, out |-> <<>>, done |-> FALSE]
DecCall(fn, src, in) == [fn |-> fn, src |-> src, in |-> in, out |-> <<>>, done |-> FALSE]

\* neither module runs while a decoder is called on its own
ModulesIdle ==
    /\ items = <<>> /\ dev = DevEmpty /\ idx = 0 /\ pc = "idle" /\ results = <<>>
    /\ trace = <<>> /\ showCmds = <<>>
    /\ out = [status |-> "running", changed |-> FALSE, hasResults |-> FALSE]
    /\ rb = RbIdle

\* a decoder touches nothing but its own result
DecFrame == UNCHANGED <<items, dev, idx, pc, results, trace, showCmds, out, rb>>

(***************************************************************************)
(* parse_sw_info: the "show sw" bank table                                 *)
(*                                                                         *)
(* A line is the sequence of its whitespace-separated tokens, each token a *)
(* sequence of characters; a blank line is the empty sequence.             *)
(***************************************************************************)
MaxSwRows == 2

TxtFlash == <<"F", "l", "a", "s", "h">>
TxtBank == <<"B", "a", "n", "k">>
TxtYes == <<"y", "e", "s">>
TxtNo == <<"n", "o">>
TxtExists == <<"e", "x", "i", "s", "t", "s">>
TxtMissing == <<"m", "i", "s", "s", "i", "n", "g">>

\* the token is matched whole by \d+
AllDigits(tok) == tok # <<>> /\ \A i \in 1..Len(tok) : IsDigit(tok[i])

\* 'Flash Bank' in line
SwIsHeader(line) ==
    \E i \in 1..(Len(line) - 1) :
        /\ HasAt(line[i], Len(line[i]) - Len(TxtFlash) + 1, TxtFlash)
        /\ HasAt(line[i + 1], 1, TxtBank)

\* re.search(r'^\s*(\d+)\s+(\S+)\s+(yes|no)\s+(yes|no)\s+(exists|missing)',
\*           line, re.IGNORECASE)
SwMatch(line) ==
    /\ Len(line) >= 5
    /\ AllDigits(line[1])
    /\ LowerText(line[3]) \in {TxtYes, TxtNo}
    /\ LowerText(line[4]) \in {TxtYes, TxtNo}
    /\ \/ HasAt(LowerText(line[5]), 1, TxtExists)
       \/ HasAt(LowerText(line[5]), 1, TxtMissing)

\* the bank_data of a matching line
SwBankData(line) ==
    [version |-> line[2],
     bank |-> DigitsVal(line[1]),
     scheduled_to_run |-> LowerText(line[4]) = TxtYes,
     startup_config |-> HasAt(LowerText(line[5]), 1, TxtExists)]

\* faulty variant of SwParseLine: the group is chosen by the bank number
SwParseLine_ByBank(info, line) ==
    IF SwIsHeader(line) \/ line = <<>> THEN info
    ELSE IF ~SwMatch(line) THEN info
    ELSE Put(info, IF DigitsVal(line[1]) = 1 THEN "running" ELSE "standby",
             SwBankData(line))

\* one iteration of the loop of parse_sw_info
SwParseLine(info, line) ==
    IF SwIsHeader(line) \/ line = <<>> THEN info
    ELSE IF ~SwMatch(line) THEN info
    ELSE Put(info, IF LowerText(line[3]) = TxtYes THEN "running" ELSE "standby",
             SwBankData(line))

RECURSIVE SwParseFrom(_, _, _)
SwParseFrom(lines, i, info) ==
    IF i > Len(lines) THEN info
    ELSE SwParseFrom(lines, i + 1, SwParseLine(info, lines[i]))

parse_sw_info(lines) == SwParseFrom(lines, 1, EmptyDict)

\* the rows a device can print: bank number, and the three flags as written
SwBankNumbers == {1, 12}
SwRows ==
    [bank : SwBankNumbers,
     run : {TxtYes, TxtNo, <<"Y", "E", "S">>},
     sched : {TxtYes, TxtNo},
     cfg : {TxtExists, <<"M", "i", "s", "s", "i", "n", "g">>}]

\* the version text of a bank
SwVersion(bank) == <<"1", "0", ".">> \o Str(bank)

\* the line printed for a row
SwRowLine(r) == <<Str(r.bank), SwVersion(r.bank), r.run, r.sched, r.cfg>>

\* lines that are no data row: the header, a blank line, a row whose bank
\* number is not a number
SwNoiseLines ==
    { <<TxtFlash, TxtBank, <<"V", "e", "r", "s", "i", "o", "n">>, <<"R", "u", "n", "n", "i", "n", "g">>>>,
      <<>>,
      <<<<"1", "a">>, SwVersion(1), TxtYes, TxtNo, TxtExists>> }

\* a table: up to n rows and at most one other line after row "at"
SwInputsUpTo(n) ==
    UNION { { [rows |-> rows, noise |-> <<>>, at |-> 0] }
                \cup { [rows |-> rows, noise |-> <<l>>, at |-> p] :
                         l \in SwNoiseLines, p \in 0..Len(rows) } :
            rows \in SeqsUpTo(SwRows, n) }

\* the text of a table
SwLines(src) ==
    LET rl == [i \in 1..Len(src.rows) |-> SwRowLine(src.rows[i])]
    IN  SubSeq(rl, 1, src.at) \o src.noise \o SubSeq(rl, src.at + 1, Len(rl))

SwInit ==
    /\ \E src \in SwInputsUpTo(MaxSwRows) : dec = DecCall("sw", src, SwLines(src))
    /\ ModulesIdle

\* get_software_info: parse_sw_info is applied to the text of "show sw"
DecodeSw ==
    /\ dec.fn = "sw" /\ ~dec.done
    /\ dec' = [dec EXCEPT !.out = parse_sw_info(dec.in), !.done = TRUE]
    /\ DecFrame

SpecSw == SwInit /\ [][DecodeSw]_vars

(***************************************************************************)
(* parse_inventory: the flat "show inventory" records and their tree       *)
(*                                                                         *)
(* A line "inventory <id> <key> : <value>" is Line("inventory", id, key,   *)
(* value) with the value as text.  components_by_id is the sequence of the *)
(* component dicts in insertion order.  A call returns [raised, value]:    *)
(* raised is "" and value the returned dict, or raised names the error     *)
(* the call ended with.                                                    *)
(***************************************************************************)
MaxInvId == 3
MaxInvRecords == 3
MissingRelPos == 999

\* key.replace("-", "_")
InvKey(key) ==
    IF key = "cont-in" THEN "cont_in" ELSE IF key = "rel-pos" THEN "rel_pos" ELSE key

\* the position of component comp_id in components_by_id, 0 when absent
InvIndex(comps, comp_id) ==
    IF \E i \in 1..Len(comps) : comps[i]["id"] = comp_id
    THEN CHOOSE i \in 1..Len(comps) : comps[i]["id"] = comp_id
    ELSE 0

\* one iteration of the first loop of parse_inventory
InvParseLine(comps, line) ==
    IF line.ns # "inventory" THEN comps
    ELSE LET known == IF InvIndex(comps, line.slot) = 0
                      THEN Append(comps, Put(EmptyDict, "id", line.slot)) ELSE comps
             i == InvIndex(known, line.slot)
             key == InvKey(line.key)
         IN  IF key \in {"cont_in", "rel_pos"}
             THEN [known EXCEPT ![i] = Put(@, key, convert_to_int(line.val))]
             ELSE IF key = "fru"
             THEN [known EXCEPT ![i] = Put(@, key, convert_to_bool(line.val))]
             ELSE IF normalize_empty_value(line.val) # None
             THEN [known EXCEPT ![i] = Put(@, key, normalize_empty_value(line.val)[1])]
             ELSE known

RECURSIVE InvParseFrom(_, _, _)
InvParseFrom(lines, i, comps) ==
    IF i > Len(lines) THEN comps
    ELSE InvParseFrom(lines, i + 1, InvParseLine(comps, lines[i]))

\* component.get("cont_in") == n
InvContIn(comp, n) == Has(comp, "cont_in") /\ comp["cont_in"] = Some(n)

\* the sort key x.get("rel_pos", 999): None, or an integer
InvSortKey(x) == IF Has(x, "rel_pos") THEN x["rel_pos"] ELSE Some(MissingRelPos)

\* list.sort on integer keys: stable, ascending
RECURSIVE InvSort(_)
InvSort(list) ==
    IF Len(list) <= 1 THEN list
    ELSE LET s == InvSort(SubSeq(list, 1, Len(list) - 1))
             x == list[Len(list)]
             p == Cardinality({i \in 1..Len(s) : InvSortKey(s[i])[1] <= InvSortKey(x)[1]})
         IN  SubSeq(s, 1, p) \o <<x>> \o SubSeq(s, p + 1, Len(s))

\* build_hierarchy(parent_id) with "depth" more nested calls allowed: the
\* children list, or the error that ends the call.  A walk deeper than the
\* number of components is on a cycle and never returns (RecursionError);
\* a sort that has to compare None with another key raises TypeError.
RECURSIVE build_hierarchy(_, _, _)
RECURSIVE InvChildren(_, _, _, _, _)
InvChildren(comps, parent_id, depth, i, children) ==
    IF i > Len(comps) THEN [raised |-> "", list |-> children]
    ELSE IF ~InvContIn(comps[i], parent_id)
    THEN InvChildren(comps, parent_id, depth, i + 1, children)
    ELSE LET nested == build_hierarchy(comps, comps[i]["id"], depth - 1)
         IN  IF nested.raised # "" THEN nested
             ELSE InvChildren(comps, parent_id, depth, i + 1,
                              Append(children, Put(comps[i], "components", nested.list)))

build_hierarchy(comps, parent_id, depth) ==
    IF depth = 0 THEN [raised |-> "RecursionError", list |-> <<>>]
    ELSE LET kids == InvChildren(comps, parent_id, depth, 1, <<>>)
         IN  IF kids.raised # "" THEN kids
             ELSE IF /\ Len(kids.list) >= 2
                     /\ \E i \in 1..Len(kids.list) : InvSortKey(kids.list[i]) = None
             THEN [raised |-> "TypeError", list |-> <<>>]
             ELSE [raised |-> "", list |-> InvSort(kids.list)]

\* faulty variant of parse_inventory: the last record with cont_in 0 is
\* taken as the chassis
parse_inventory_LastRoot(lines) ==
    LET comps == InvParseFrom(lines, 1, <<>>)
        roots == {i \in 1..Len(comps) : InvContIn(comps[i], 0)}
    IN  IF roots = {} THEN [raised |-> "", value |-> [chassis |-> EmptyDict]]
        ELSE LET chassis == comps[CHOOSE i \in roots : \A j \in roots : i >= j]
                 built == build_hierarchy(comps, chassis["id"], Len(comps) + 1)
             IN  IF built.raised # "" THEN [raised |-> built.raised, value |-> EmptyDict]
                 ELSE [raised |-> "",
                       value |-> [chassis |-> Put(chassis, "components", built.list)]]

parse_inventory(lines) ==
    LET comps == InvParseFrom(lines, 1, <<>>)
        roots == {i \in 1..Len(comps) : InvContIn(comps[i], 0)}
    IN  IF roots = {} THEN [raised |-> "", value |-> [chassis |-> EmptyDict]]
        ELSE LET chassis == comps[CHOOSE i \in roots : \A j \in roots : i <= j]
                 built == build_hierarchy(comps, chassis["id"], Len(comps) + 1)
             IN  IF built.raised # "" THEN [raised |-> built.raised, value |-> EmptyDict]
                 ELSE [raised |-> "",
                       value |-> [chassis |-> Put(chassis, "components", built.list)]]

TxtNAUpper == <<"N", "/", "A">>
TxtBigRelPos == Str(MissingRelPos + 1)

\* the records a device can print: id, the cont-in value as written, and the
\* rel-pos value as written (no rel-pos line when it is the empty sequence)
InvRecords ==
    [id : 0..MaxInvId,
     cont_in : {Str(n) : n \in 0..MaxInvId} \cup {TxtNAUpper},
     rel_pos : {<<>>, TxtNAUpper, Str(1), TxtBigRelPos}]

\* record sets of up to n records with distinct ids, in any order
RECURSIVE InvInputsUpTo(_)
InvInputsUpTo(n) ==
    IF n = 0 THEN {<<>>}
    ELSE LET shorter == InvInputsUpTo(n - 1)
             longest == {s \in shorter : Len(s) = n - 1}
         IN  shorter \cup
             {Append(p[1], p[2]) :
                 p \in {q \in longest \X InvRecords :
                           \A i \in 1..Len(q[1]) : q[1][i].id # q[2].id}}

\* the lines printed for one record, and for a record set
InvRecordLines(r) ==
    <<Line("inventory", r.id, "cont-in", r.cont_in)>>
        \o (IF r.rel_pos = <<>> THEN <<>> ELSE <<Line("inventory", r.id, "rel-pos", r.rel_pos)>>)

RECURSIVE InvLines(_)
InvLines(s) == IF s = <<>> THEN <<>> ELSE InvRecordLines(Head(s)) \o InvLines(Tail(s))

InvInit ==
    /\ \E src \in InvInputsUpTo(MaxInvRecords) : dec = DecCall("inventory", src, InvLines(src))
    /\ ModulesIdle

\* gather_inventory_facts: parse_inventory is applied to "show inventory"
DecodeInventory ==
    /\ dec.fn = "inventory" /\ ~dec.done
    /\ dec' = [dec EXCEPT !.out = parse_inventory(dec.in), !.done = TRUE]
    /\ DecFrame

SpecInventory == InvInit /\ [][DecodeInventory]_vars

(***************************************************************************)
(* parse_ip_config and parse_route_config applied to "show" output whose   *)
(* lines come in any order                                                 *)
(***************************************************************************)
MaxShowSlot == 2
MaxShowLines == 3

ShowSlots == 0..MaxShowSlot

\* the lines "show ip" can print for the slots
ShowIpLines ==
    {Line("ip", n, "ip-addr", <<StrTok(a)>>) : n \in ShowSlots, a \in {"10.0.0.1", "10.0.0.2"}}
      \cup {Line("ip", n, "prefix-len", <<NumTok(v)>>) : n \in ShowSlots, v \in {16, 24}}
      \cup {Line("ip", n, "vlan", <<NumTok(100)>>) : n \in ShowSlots}

\* the lines "show route" can print for the slots
ShowRouteLines ==
    {Line("route", n, "dest", <<StrTok(a)>>) : n \in ShowSlots, a \in {"10.1.0.0", "10.2.0.0"}}
      \cup {Line("route", n, "prefix-len", <<NumTok(v)>>) : n \in ShowSlots, v \in {16, 24}}
      \cup {Line("route", n, "next-hop", <<StrTok("10.0.0.254")>>) : n \in ShowSlots}

ShowInit ==
    /\ \/ \E in \in SeqsUpTo(ShowIpLines, MaxShowLines) : dec = DecCall("ip", "show ip", in)
       \/ \E in \in SeqsUpTo(ShowRouteLines, MaxShowLines) :
             dec = DecCall("route", "show route", in)
    /\ ModulesIdle

\* get_ip_info: parse_ip_config is applied to the output of "show ip"
DecodeIp ==
    /\ dec.fn = "ip" /\ ~dec.done
    /\ dec' = [dec EXCEPT !.out = parse_ip_config(dec.in), !.done = TRUE]
    /\ DecFrame

\* get_route_info: parse_route_config is applied to the output of "show route"
DecodeRoute ==
    /\ dec.fn = "route" /\ ~dec.done
    /\ dec' = [dec EXCEPT !.out = parse_route_config(dec.in), !.done = TRUE]
    /\ DecFrame

ShowNext == DecodeIp \/ DecodeRoute

SpecShow == ShowInit /\ [][ShowNext]_vars

(***************************************************************************)
(* parse_rollback_status applied to "show rollback" output                 *)
(***************************************************************************)
MaxRbLines == 2

\* the values a "rollback timeout" line can carry
RbStatusValues ==
    {TxtNotStarted, <<"N", "o", "t", " ", "S", "t", "a", "r", "t", "e", "d">>, <<"9", "0", "0", "0">>, <<"-", "5">>, <<"b", "o", "g", "u", "s">>, <<"1", "2", "a", "b", "c">>, TxtNAUpper, <<>>}

\* lines that are not a "rollback timeout" line: blank, comment, another key
RbStatusNoise ==
    {<<>>, <<"#", " ", "r", "o", "l", "l", "b", "a", "c", "k", " ", "t", "i", "m", "e", "o", "u", "t", " ", ":", " ", "5">>, <<"r", "o", "l", "l", "b", "a", "c", "k", " ", "m", "o", "d", "e", " ", ":", " ", "7">>}

\* the lines of the output: [value |-> v] is "rollback timeout : v",
\* [noise |-> t] is the line t
RbStatusRows == [value : RbStatusValues] \cup [noise : RbStatusNoise]

RbStatusLine(row) == IF Has(row, "value") THEN TxtShowRollback \o row.value ELSE row.noise

RbStatusInit ==
    /\ \E src \in SeqsUpTo(RbStatusRows, MaxRbLines) :
          dec = DecCall("rollback", src, [i \in 1..Len(src) |-> RbStatusLine(src[i])])
    /\ ModulesIdle

\* get_rollback_status: parse_rollback_status is applied to "show rollback"
DecodeRollback ==
    /\ dec.fn = "rollback" /\ ~dec.done
    /\ dec' = [dec EXCEPT !.out = parse_rollback_status(dec.in), !.done = TRUE]
    /\ DecFrame

SpecRbStatus == RbStatusInit /\ [][DecodeRollback]_vars

(***************************************************************************)
(* parse_system_info: regular expressions searched in the whole text of    *)
(* "show system" (a sequence of characters, lines ended by "\n")           *)
(***************************************************************************)
MaxSysLines == 2

\* the patterns table: the literal before \s+:\s+ and the class of the group
\* ("S" is \S+, "dot" is .+, "d" is \d+)
SysPatterns ==
    <<[field |-> "model", kind |-> "S",
        key |-> <<"s", "y", "s", "t", "e", "m", " ", "d", "e", "s", "c", "r", "i", "p", "t", "i", "o", "n">>],
       [field |-> "snmp_id", kind |-> "S",
        key |-> <<"s", "y", "s", "t", "e", "m", " ", "s", "n", "m", "p", "i", "d">>],
       [field |-> "uptime", kind |-> "S",
        key |-> <<"s", "y", "s", "t", "e", "m", " ", "u", "p", "t", "i", "m", "e">>],
       [field |-> "contact", kind |-> "dot",
        key |-> <<"s", "y", "s", "t", "e", "m", " ", "c", "o", "n", "t", "a", "c", "t">>],
       [field |-> "name", kind |-> "S",
        key |-> <<"s", "y", "s", "t", "e", "m", " ", "n", "a", "m", "e">>],
       [field |-> "hostname", kind |-> "S",
        key |-> <<"s", "y", "s", "t", "e", "m", " ", "h", "o", "s", "t", "n", "a", "m", "e">>],
       [field |-> "location", kind |-> "dot",
        key |-> <<"s", "y", "s", "t", "e", "m", " ", "l", "o", "c", "a", "t", "i", "o", "n">>],
       [field |-> "voltage", kind |-> "dot",
        key |-> <<"s", "y", "s", "t", "e", "m", " ", "v", "o", "l", "t", "a", "g", "e">>],
       [field |-> "temperature", kind |-> "d",
        key |-> <<"s", "y", "s", "t", "e", "m", " ", "t", "e", "m", "p", "e", "r", "a", "t", "u", "r", "e">>],
       [field |-> "date", kind |-> "S",
        key |-> <<"s", "y", "s", "t", "e", "m", " ", "d", "a", "t", "e">>],
       [field |-> "time", kind |-> "S",
        key |-> <<"s", "y", "s", "t", "e", "m", " ", "t", "i", "m", "e">>],
       [field |-> "cli_timeout", kind |-> "d",
        key |-> <<"s", "y", "s", "t", "e", "m", " ", "c", "l", "i", "-", "t", "i", "m", "e", "o", "u", "t">>],
       [field |-> "loop_permission", kind |-> "S",
        key |-> <<"s", "y", "s", "t", "e", "m", " ", "l", "o", "o", "p", "-", "p", "e", "r", "m", "i", "s", "s", "i", "o", "n">>],
       [field |-> "antenna_heater", kind |-> "S",
        key |-> <<"s", "y", "s", "t", "e", "m", " ", "a", "n", "t", "e", "n", "n", "a", "-", "h", "e", "a", "t", "e", "r">>],
       [field |-> "heartbeat_trap_period", kind |-> "d",
        key |-> <<"s", "y", "s", "t", "e", "m", " ", "h", "e", "a", "r", "t", "b", "e", "a", "t", "-", "t", "r", "a", "p", "-", "p", "e", "r", "i", "o", "d">>]>>

SysIntFields == {"temperature", "cli_timeout", "heartbeat_trap_period"}

\* character c belongs to the class
SysInClass(c, kind) ==
    IF kind = "space" THEN IsSpace(c)
    ELSE IF kind = "d" THEN IsDigit(c)
    ELSE IF kind = "S" THEN ~IsSpace(c)
    ELSE c # "\n"

\* the position after the longest run of class characters that starts at p
RECURSIVE SysRunEnd(_, _, _)
SysRunEnd(text, p, kind) ==
    IF p <= Len(text) /\ SysInClass(text[p], kind) THEN SysRunEnd(text, p + 1, kind) ELSE p

\* where the group starts when the pattern matches with its literal at i, else 0:
\* the literal, \s+, ":", \s+ (as long as the group still matches), the group
SysGroupStart(text, i, pat) ==
    LET a == i + Len(pat.key)
        colon == SysRunEnd(text, a, "space")
        b == colon + 1
        w == SysRunEnd(text, b, "space")
        starts == {g \in (b + 1)..w : g <= Len(text) /\ SysInClass(text[g], pat.kind)}
    IN  IF /\ HasAt(text, i, pat.key)
           /\ colon > a /\ colon <= Len(text) /\ text[colon] = ":"
           /\ starts # {}
        THEN CHOOSE g \in starts : \A h \in starts : h <= g
        ELSE 0

\* re.search(pattern, output): group(1) of the leftmost match, or None
SysSearch(text, pat) ==
    LET hits == {i \in 1..Len(text) : SysGroupStart(text, i, pat) # 0}
    IN  IF hits = {} THEN None
        ELSE LET g == SysGroupStart(text, CHOOSE i \in hits : \A j \in hits : i <= j, pat)
             IN  Some(SubSeq(text, g, SysRunEnd(text, g, pat.kind) - 1))

RECURSIVE SysParseFrom(_, _, _)
SysParseFrom(text, n, info) ==
    IF n > Len(SysPatterns) THEN info
    ELSE LET pat == SysPatterns[n]
             match == SysSearch(text, pat)
         IN  SysParseFrom(text, n + 1,
                 IF match = None THEN info
                 ELSE IF pat.field \in SysIntFields
                 THEN Put(info, pat.field, DigitsVal(Strip(match[1])))
                 ELSE Put(info, pat.field, Strip(match[1])))

parse_system_info(text) == SysParseFrom(text, 1, EmptyDict)

\* the lines "show system" prints here: a key and the value as written
SysRows ==
    [key : {<<"t", "e", "m", "p", "e", "r", "a", "t", "u", "r", "e">>, <<"c", "l", "i", "-", "t", "i", "m", "e", "o", "u", "t">>, <<"n", "a", "m", "e">>},
     value : {<<"5", "7">>, <<"-", "5">>, <<"1", "2", "a", "b", "c">>, <<"a", "b", "c">>, <<>>, TxtNAUpper}]

SysRowLine(row) == <<"s", "y", "s", "t", "e", "m", " ">> \o row.key \o <<" ", " ", " ", ":", " ">> \o row.value

\* "\n".join(lines)
RECURSIVE SysText(_)
SysText(rows) ==
    IF rows = <<>> THEN <<>>
    ELSE IF Len(rows) = 1 THEN SysRowLine(rows[1])
    ELSE SysRowLine(rows[1]) \o <<"\n">> \o SysText(Tail(rows))

SysInit ==
    /\ \E src \in SeqsUpTo(SysRows, MaxSysLines) : dec = DecCall("system", src, SysText(src))
    /\ ModulesIdle

\* get_system_info: parse_system_info is applied to "show system"
DecodeSystem ==
    /\ dec.fn = "system" /\ ~dec.done
    /\ dec' = [dec EXCEPT !.out = parse_system_info(dec.in), !.done = TRUE]
    /\ DecFrame

SpecSystem == SysInit /\ [][DecodeSystem]_vars

(***************************************************************************)
(* The conversion helpers applied to one value                             *)
(***************************************************************************)
MaxPad == 1

\* the values without surrounding whitespace
HelperCores ==
    {<<>>, <<"n", "/", "a">>,
     <<"N", "/", "A">>,
     <<"d", "e", "f", "a", "u", "l", "t">>,
     <<"D", "E", "F", "A", "U", "L", "T">>,
     <<"D", "e", "f", "a", "u", "l", "t">>,
     <<"t", "r", "u", "e">>,
     <<"T", "R", "U", "E">>,
     <<"F", "a", "l", "s", "e">>,
     <<"y", "e", "s">>,
     <<"1">>,
     <<"-", "5">>,
     <<"5", ".", "0">>,
     <<"a", "b", "c">>,
     <<"n", "/", "a", ".">>,
     <<"i", "n", "f">>,
     <<"1", "e", "3">>,
     <<"1", "_", "0">>}

\* a value as written: a core with up to MaxPad whitespace characters on
\* each side
HelperInputs ==
    [core : HelperCores, lead : SeqsUpTo({" ", "\t"}, MaxPad), trail : SeqsUpTo({" ", "\t"}, MaxPad)]

HelperInit ==
    /\ \E src \in HelperInputs, fn \in {"normalize", "int", "float", "bool"} :
          dec = DecCall(fn, src, src.lead \o src.core \o src.trail)
    /\ ModulesIdle

NormalizeValue ==
    /\ dec.fn = "normalize" /\ ~dec.done
    /\ dec' = [dec EXCEPT !.out = normalize_empty_value(dec.in), !.done = TRUE]
    /\ DecFrame

ConvertInt ==
    /\ dec.fn = "int" /\ ~dec.done
    /\ dec' = [dec EXCEPT !.out = convert_to_int(dec.in), !.done = TRUE]
    /\ DecFrame

ConvertFloat ==
    /\ dec.fn = "float" /\ ~dec.done
    /\ dec' = [dec EXCEPT !.out = convert_to_float(dec.in), !.done = TRUE]
    /\ DecFrame

ConvertBool ==
    /\ dec.fn = "bool" /\ ~dec.done
    /\ dec' = [dec EXCEPT !.out = convert_to_bool(dec.in), !.done = TRUE]
    /\ DecFrame

HelperNext == NormalizeValue \/ ConvertInt \/ ConvertFloat \/ ConvertBool

SpecHelpers == HelperInit /\ [][HelperNext]_vars

(***************************************************************************)
(* parse_configuration: the text of "copy running-configuration display"   *)
(* as a sequence of characters                                             *)
(***************************************************************************)
MaxCfgLen == 5

\* str.splitlines(): lines end at "\n", "\r\n", "\r" or "\f"; no empty last line
RECURSIVE SplitLines(_)
SplitLines(text) ==
    IF text = <<>> THEN <<>>
    ELSE LET brk == FirstOf(text, {"\n", "\r", "\f"})
         IN  IF brk = 0 THEN <<text>>
             ELSE LET skip == IF text[brk] = "\r" /\ brk < Len(text) /\ text[brk + 1] = "\n"
                              THEN brk + 1 ELSE brk
                  IN  <<SubSeq(text, 1, brk - 1)>> \o SplitLines(SubSeq(text, skip + 1, Len(text)))

\* faulty variant of RStrip: whitespace removed on both sides
RStrip_BothSides(line) == Strip(line)

\* str.rstrip()
RECURSIVE RStrip(_)
RStrip(line) ==
    IF line # <<>> /\ IsSpace(line[Len(line)]) THEN RStrip(SubSeq(line, 1, Len(line) - 1))
    ELSE line

\* "\n".join(lines)
RECURSIVE JoinLines(_)
JoinLines(lines) ==
    IF lines = <<>> THEN <<>>
    ELSE IF Len(lines) = 1 THEN lines[1]
    ELSE lines[1] \o <<"\n">> \o JoinLines(Tail(lines))

\* the loop of parse_configuration: the kept lines
RECURSIVE CfgKeptFrom(_, _, _)
CfgKeptFrom(split, i, lines) ==
    IF i > Len(split) THEN lines
    ELSE CfgKeptFrom(split, i + 1,
             IF RStrip(split[i]) # <<>> THEN Append(lines, RStrip(split[i])) ELSE lines)

parse_configuration(text) == JoinLines(CfgKeptFrom(SplitLines(text), 1, <<>>))

CfgChars == {"a", "#", " ", "\n", "\r", "\f"}

CfgInit ==
    /\ \E text \in SeqsUpTo(CfgChars, MaxCfgLen) : dec = DecCall("config", text, text)
    /\ ModulesIdle

\* gather_config_facts: parse_configuration is applied to the displayed text
DecodeConfiguration ==
    /\ dec.fn = "config" /\ ~dec.done
    /\ dec' = [dec EXCEPT !.out = parse_configuration(dec.in), !.done = TRUE]
    /\ DecFrame

SpecConfiguration == CfgInit /\ [][DecodeConfiguration]_vars

(***************************************************************************)
(* siklu_facts: main, validate_gather_subset and gather_facts              *)
(*                                                                         *)
(* One invocation is held in dec: src is module.params['gather_subset'],   *)
(* todo the subsets still to gather, ran the subsets whose method was      *)
(* called, facts the subsets that produced a fact, warned those that       *)
(* raised.                                                                 *)
(***************************************************************************)
MaxSubsets == 2

VALID_SUBSETS ==
    {"system", "software", "ip", "route", "inventory", "rf", "config", "config_startup", "all"}

DEFAULT_SUBSETS == {"system", "software", "ip", "route"}

\* list(a_set): the elements in some order
ListsOf(S) ==
    {l \in SeqsUpTo(S, Cardinality(S)) :
        Len(l) = Cardinality(S) /\ \A i, j \in 1..Len(l) : i # j => l[i] # l[j]}

FactsStart(param) ==
    [fn |-> "facts", src |-> param, in |-> <<>>, out |-> <<>>, done |-> FALSE,
     pc |-> "validate", todo |-> <<>>, ran |-> <<>>, facts |-> {}, warned |-> {}]

FactsInit ==
    /\ \E param \in SeqsUpTo(VALID_SUBSETS \cup {"bogus"}, MaxSubsets) : dec = FactsStart(param)
    /\ ModulesIdle

\* validate_gather_subset
FactsValidate ==
    /\ dec.fn = "facts" /\ dec.pc = "validate"
    /\ LET gather_subset == IF dec.src = <<>> THEN <<"all">> ELSE dec.src
           named == {gather_subset[i] : i \in 1..Len(gather_subset)}
       IN  IF named \ VALID_SUBSETS # {}
           THEN dec' = [dec EXCEPT !.pc = "failed", !.done = TRUE,
                                   !.out = [failed |-> TRUE, changed |-> FALSE, facts |-> {}]]
           ELSE IF "all" \in named
           THEN \E order \in ListsOf(DEFAULT_SUBSETS) :
                    dec' = [dec EXCEPT !.pc = "gather", !.todo = order]
           ELSE dec' = [dec EXCEPT !.pc = "gather", !.todo = gather_subset]
    /\ DecFrame

\* one iteration of the loop of gather_facts: the subset's method runs its
\* command and stores the decoded fact, or raises and a warning is issued
FactsGatherOne ==
    /\ dec.fn = "facts" /\ dec.pc = "gather" /\ dec.todo # <<>>
    /\ \E raised \in BOOLEAN :
          dec' = [dec EXCEPT !.todo = Tail(dec.todo),
                             !.ran = Append(dec.ran, Head(dec.todo)),
                             !.facts = IF raised THEN @ ELSE @ \cup {Head(dec.todo)},
                             !.warned = IF raised THEN @ \cup {Head(dec.todo)} ELSE @]
    /\ DecFrame

\* main: exit_json with the gathered facts
FactsExit ==
    /\ dec.fn = "facts" /\ dec.pc = "gather" /\ dec.todo = <<>>
    /\ dec' = [dec EXCEPT !.pc = "exited", !.done = TRUE,
                           !.out = [failed |-> FALSE, changed |-> FALSE, facts |-> dec.facts]]
    /\ DecFrame

FactsNext == FactsValidate \/ FactsGatherOne \/ FactsExit

SpecFacts == FactsInit /\ [][FactsNext]_vars

(***************************************************************************)
(* Specifications                                                          *)
(***************************************************************************)
ConfigNext == BeginItem \/ ReadCurrent \/ Apply \/ Verify \/ Finish

\* the configuration module runs; the rollback module is not invoked
ConfigInit == ConfigStart /\ rb = RbIdle /\ dec = DecIdle

SpecConfig == ConfigInit /\ [][ConfigNext]_vars

RbNext == RbValidate \/ RbRead \/ RbArm \/ RbClear \/ RbFinal \/ RbInvoke

\* the rollback module runs; the configuration module is not invoked
RbInit ==
    /\ RbFirst
    /\ items = <<>> /\ dev = DevEmpty /\ idx = 0 /\ pc = "idle" /\ results = <<>>
    /\ trace = <<>> /\ showCmds = <<>>
    /\ out = [status |-> "running", changed |-> FALSE, hasResults |-> FALSE]
    /\ dec = DecIdle

SpecRollback == RbInit /\ [][RbNext]_vars

(***************************************************************************)
(* Properties of the configuration module (checked under SpecConfig)       *)
(***************************************************************************)
\* the item passes main's type dispatch and its validator
ItemValid(item) ==
    \/ TypeOf(item) = "ip" /\ validate_ip_config_item(item) = ""
    \/ TypeOf(item) = "route" /\ validate_route_config_item(item) = ""

\* a decoded slot record carries every field of the item with the item's value
ReadEquals(rec, item) ==
    IF item.type = "ip"
    THEN /\ {"ip", "prefix_len", "vlan"} \subseteq DOMAIN rec
         /\ rec["ip"] = item.ip_address
         /\ rec["prefix_len"] = item.prefix_len
         /\ rec["vlan"] = item.vlan
    ELSE /\ {"dest", "prefix_len", "next_hop"} \subseteq DOMAIN rec
         /\ rec["dest"] = item.dest
         /\ rec["prefix_len"] = item.prefix_len
         /\ rec["next_hop"] = item.next_hop

SetCount(cmds) == Cardinality({i \in 1..Len(cmds) : cmds[i].op = "set"})

\* the first read of item k returned text and its slot record equals the item
FirstReadEqual(k) == trace[k].r1 = "read" /\ ReadEquals(trace[k].cur1, items[k])

\* C1: when the first read of an item's slot already equals the item on every
\* field, the item's result is changed=false and not failed, and no "set"
\* command is sent for it.
C1_NoOpWhenEqual ==
    \A k \in 1..Len(trace) :
        FirstReadEqual(k) =>
            /\ SetCount(trace[k].cmds) = 0
            /\ k <= Len(results)
            /\ ~results[k].changed
            /\ ~results[k].failed

\* C1 witness: an ip item and a route item were each found already configured
C1_Witness ==
    /\ \E k \in 1..Len(results) : items[k].type = "ip" /\ FirstReadEqual(k)
    /\ \E k \in 1..Len(results) : items[k].type = "route" /\ FirstReadEqual(k)

\* the device answered every command of item k and did what a "set" asked
Faithful(k) ==
    /\ trace[k].r1 = "read"
    /\ trace[k].ack = "none" \/ (trace[k].ack = "own" /\ trace[k].stored)
    /\ trace[k].r2 \in {"none", "read"}
    /\ trace[k].ack = "own" => trace[k].r2 = "read"

\* C2: for every item the validators accept (every slot >= 0), against a device
\* that stores each acknowledged "set" and prints the slot in the normal format,
\* two consecutive reconciles of the same item from a differing device state
\* return changed=true and then changed=false, with exactly one "set" sent.
C2_Idempotence ==
    \A k \in 1..(Len(results) - 1) :
        ( /\ items[k] = items[k + 1]
          /\ ItemValid(items[k])
          /\ trace[k].dev0 # EntryOf(items[k])
          /\ Faithful(k) /\ Faithful(k + 1) )
        => /\ results[k].changed /\ ~results[k].failed
           /\ ~results[k + 1].changed /\ ~results[k + 1].failed
           /\ SetCount(trace[k].cmds) + SetCount(trace[k + 1].cmds) = 1

\* C3: an acknowledgement "Set done: <type> t" for a requested slot s # t is
\* classified as failure by the validator, and the item's result is failed.
C3_AckSlotScoping ==
    \A k \in 1..Len(trace) :
        trace[k].ack = "other" =>
            /\ ~trace[k].ackOk
            /\ k <= Len(results) /\ results[k].failed

\* C4: a result is changed=true only if a "set" was sent, its acknowledgement
\* was accepted and the read after it equals the item on every field; a read
\* after the "set" that differs from the item (or lacks the slot) gives a
\* failed result, never changed=true.
C4_VerifyAfterApply ==
    \A k \in 1..Len(results) :
        /\ results[k].changed =>
            /\ ItemValid(items[k])
            /\ SetCount(trace[k].cmds) = 1
            /\ trace[k].ackOk
            /\ trace[k].r2 = "read" /\ ReadEquals(trace[k].cur2, items[k])
        /\ (trace[k].r2 = "read" /\ ~ReadEquals(trace[k].cur2, items[k])) =>
            results[k].failed /\ ~results[k].changed

\* C4 witness: one item was changed and verified, another failed verification
C4_Witness ==
    /\ \E k \in 1..Len(results) : results[k].changed /\ ReadEquals(trace[k].cur2, items[k])
    /\ \E k \in 1..Len(results) :
        /\ trace[k].r2 = "read" /\ ~ReadEquals(trace[k].cur2, items[k])
        /\ results[k].failed

\* C5: for every input list, also with invalid or typeless items, the batch ends
\* with exactly one result per item, result k carrying index k and describing
\* item k; a failure of one item never prevents the later ones.
C5_BatchCompleteness ==
    pc = "exited" =>
        /\ Len(results) = Len(items)
        /\ \A k \in 1..Len(results) :
            /\ results[k].index = k - 1
            /\ results[k].type = TypeOf(items[k])
            /\ results[k].slot = items[k].slot

\* a command of item k raised a transport failure
TransportFailed(k) == "tfail" \in {trace[k].r1, trace[k].ack, trace[k].r2}

\* C6: after a transport failure on a command of an item, that command is not
\* sent again and no further command is sent to the device in that batch.
C6_TransportPropagation ==
    \A k \in 1..Len(trace) :
        TransportFailed(k) =>
            /\ Len(trace[k].cmds) = (IF trace[k].r1 = "tfail" THEN 1
                                     ELSE IF trace[k].ack = "tfail" THEN 2 ELSE 3)
            /\ \A j \in (k + 1)..Len(trace) : trace[j].cmds = <<>>
            /\ showCmds = <<>>

\* one step of the reconcile of the current item keeps to the item's slot
C7_Step ==
    pc \in {"read", "apply", "verify"} =>
        /\ \A i \in 1..Len(trace'[idx + 1].cmds) :
              LET c == trace'[idx + 1].cmds[i] IN
              c.op \in {"show", "set"} /\ c.type = Cur.type /\ c.slot = Cur.slot
        /\ Len(trace'[idx + 1].cmds) = Len(trace[idx + 1].cmds) + 1
        /\ \A j \in 1..Len(trace) : j # idx + 1 => trace'[j] = trace[j]
        /\ showCmds' = showCmds
        /\ \A t \in {"ip", "route"}, s \in Slots :
              (t # Cur.type \/ s # Cur.slot) => dev'[t][s] = dev[t][s]

\* C7: each step of an item's reconcile sends only "show" / "set" commands for
\* that item's own type and slot, and leaves the device's entry of every other
\* slot and of the other type as it was.
C7_Frame == [][C7_Step]_vars

\* C7 witness: the device stored an item's "set" while another slot keeps the
\* different entry it held from the start
C7_Witness ==
    \E k \in 1..Len(results) :
        /\ trace[k].stored
        /\ trace[k].dev0 # EntryOf(items[k])
        /\ dev[items[k].type][items[k].slot] = EntryOf(items[k])
        /\ \E s \in Slots : s # items[k].slot /\ dev[items[k].type][s] = DevOther[items[k].type][s]

(***************************************************************************)
(* Properties of the rollback module (checked under SpecRollback)          *)
(***************************************************************************)
RbMutating == {"set rollback timeout", "clear rollback"}
RbMutatingSent == \E i \in 1..Len(rb.sent) : rb.sent[i] \in RbMutating

\* the device's timer at the first read already is the target
RbTargetReached ==
    IF rb.state = "present" THEN rb.dev0 = rb.timeout ELSE rb.dev0 = None

\* the reply to arm / clear carries the marker the module expects
RbGoodReply ==
    /\ rb.reply # None
    /\ IF rb.state = "present"
       THEN \/ Contains(LowerText(rb.reply[1]), TxtSetDone)
            \/ Contains(LowerText(rb.reply[1]), TxtRollbackTimeoutEcho)
       ELSE Contains(rb.reply[1], TxtRollbackCleared)

\* C8 as stated: when the status read at the start already equals the target,
\* neither "set rollback timeout" nor "clear rollback" is sent and the result is
\* changed=false; in every other case with a valid target and a correct
\* acknowledgement the result is changed=true.
C8_RollbackNoOp ==
    rb.read1 =>
        /\ RbTargetReached => (~RbMutatingSent /\ ~rb.result.changed)
        /\ (~RbTargetReached /\ RbGoodReply /\ rb.pc = "exited") =>
              (rb.result.status = "ok" /\ rb.result.changed)

\* C8 as amended: the same, the second case holding when no command of the
\* invocation raised a transport failure (the status read that follows the
\* acknowledgement can fail, and the invocation then ends as a failure); in the
\* first case the result, unless such a failure ends it, is ok with
\* changed=false.
C8_RollbackNoOpAmended ==
    rb.read1 =>
        /\ RbTargetReached =>
              /\ ~RbMutatingSent /\ ~rb.result.changed
              /\ (rb.pc = "exited" /\ ~rb.tfail) => rb.result.status = "ok"
        /\ (~RbTargetReached /\ RbGoodReply /\ rb.pc = "exited" /\ ~rb.tfail) =>
              (rb.result.status = "ok" /\ rb.result.changed)

\* C8 witness: a non-dry-run invocation found the timer already armed with the
\* requested timeout and ended ok
C8_Witness ==
    /\ rb.pc = "exited" /\ rb.read1 /\ ~rb.check_mode
    /\ rb.state = "present" /\ RbTargetReached
    /\ rb.result.status = "ok" /\ ~rb.result.changed

\* C9: outside dry-run, an arm reply with neither "set done" nor
\* "rollbacktimeout" (any case), and a clear reply without the exact text
\* "rollback cleared", end the invocation as a failure, never changed=true.
C9_RollbackAckCheck ==
    (rb.reply # None /\ ~RbGoodReply) =>
        /\ ~rb.check_mode
        /\ rb.pc = "exited"
        /\ rb.result.status = "failed"
        /\ ~rb.result.changed

\* C9 witness: the device answered "clear rollback" with the marker in other
\* letter case, and the invocation failed
C9_Witness ==
    /\ rb.state = "absent" /\ rb.reply = Some(TxtClearedCaps)
    /\ rb.pc = "exited" /\ rb.result.status = "failed"

\* C10: in dry-run (check) mode neither arm nor clear is sent, for any target
\* and device status, and the returned final timeout is the requested timeout
\* for present and None for absent, with no status read after the decision.
C10_RollbackDryRun ==
    rb.check_mode =>
        /\ ~RbMutatingSent
        /\ Len(rb.sent) <= 1
        /\ rb.result.status = "ok" =>
              rb.result.timeout = (IF rb.state = "present" THEN rb.timeout ELSE None)

\* C10 witness: a dry run that reports a change returns a final timeout the
\* device does not hold
C10_Witness ==
    /\ rb.check_mode /\ rb.pc = "exited"
    /\ rb.result.status = "ok" /\ rb.result.changed
    /\ rb.result.timeout # rb.dev

\* the status an invocation must decode from the device's timer at its read
RbStatusOf(d) == [active |-> d # None, timeout |-> d]

\* a status that already equals the invocation's target
RbStatusIsTarget(status) ==
    IF rb.state = "present" THEN status.active /\ status.timeout = rb.timeout
    ELSE ~status.active

\* C11: in every invocation, each "set rollback timeout" or "clear rollback"
\* comes after a "show rollback" of the same invocation, and the status that
\* read decoded from the device (not one of an earlier invocation) is the one
\* that differs from the target.
C11_ReadBeforeMutate ==
    \A i \in 1..Len(rb.sent) :
        rb.sent[i] \in RbMutating =>
            /\ i = 2
            /\ rb.sent[1] = "show rollback"
            /\ rb.read1
            /\ rb.status = RbStatusOf(rb.dev0)
            /\ ~RbStatusIsTarget(rb.status)

\* C11 witness: a second invocation sends a mutating command although the
\* status the first invocation had decoded equals the new target
C11_Witness ==
    /\ rb.inv = 2
    /\ Len(rb.sent) >= 2 /\ rb.sent[2] \in RbMutating
    /\ RbStatusIsTarget(rb.prev)
    /\ rb.prev # rb.status

\* C12: a requested timeout outside 0..86400 ends the invocation as a failure
\* with no command sent; a timeout inside the range, both bounds included, is
\* not rejected: the invocation goes on to read the device and can fail only
\* on a transport failure or a wrong acknowledgement.
C12_TimeoutRange ==
    /\ (rb.timeout # None /\ (rb.timeout[1] < 0 \/ rb.timeout[1] > MaxTimeout)) =>
          /\ rb.sent = <<>>
          /\ rb.pc \in {"start", "exited"}
          /\ rb.pc = "exited" => rb.result.status = "failed"
    /\ (rb.timeout # None /\ 0 <= rb.timeout[1] /\ rb.timeout[1] <= MaxTimeout) =>
          /\ rb.pc = "exited" => Len(rb.sent) >= 1
          /\ (rb.pc = "exited" /\ rb.result.status = "failed") =>
                (rb.tfail \/ rb.ack = "bad")

\* C12 witness: the upper bound of the range was accepted and armed
C12_Witness ==
    /\ rb.timeout = Some(MaxTimeout) /\ rb.state = "present" /\ ~rb.check_mode
    /\ rb.pc = "exited" /\ rb.result.status = "ok" /\ rb.result.changed
    /\ rb.result.timeout = rb.timeout

(***************************************************************************)
(* Properties of parse_sw_info (checked under SpecSw)                      *)
(***************************************************************************)
\* the record a row stands for
SwRecord(r) ==
    [version |-> SwVersion(r.bank),
     bank |-> r.bank,
     scheduled_to_run |-> LowerText(r.sched) = TxtYes,
     startup_config |-> LowerText(r.cfg) = TxtExists]

\* the positions of the rows whose running flag is yes / no
SwYesRows == {i \in 1..Len(dec.src.rows) : LowerText(dec.src.rows[i].run) = TxtYes}
SwNoRows == {i \in 1..Len(dec.src.rows) : LowerText(dec.src.rows[i].run) = TxtNo}

\* C13: when more than one row has running=yes, the "running" group is the
\* first such row in input order; later running=yes rows are ignored.
C13_SwTieBreak ==
    (dec.fn = "sw" /\ dec.done /\ Cardinality(SwYesRows) >= 2) =>
        /\ "running" \in DOMAIN dec.out
        /\ dec.out["running"] =
              SwRecord(dec.src.rows[CHOOSE i \in SwYesRows : \A j \in SwYesRows : i <= j])

\* C14: a table with exactly one running=yes row and one running=no row, in
\* either order and with any bank numbers, decodes to "running" = the yes row
\* and "standby" = the no row, with bank an integer and the two other flags
\* booleans, flags compared without regard to letter case; a header, blank or
\* non-matching line changes nothing.
C14_SwPartition ==
    (dec.fn = "sw" /\ dec.done /\ Len(dec.src.rows) = 2
        /\ Cardinality(SwYesRows) = 1 /\ Cardinality(SwNoRows) = 1) =>
        dec.out = [running |-> SwRecord(dec.src.rows[CHOOSE i \in SwYesRows : TRUE]),
                   standby |-> SwRecord(dec.src.rows[CHOOSE i \in SwNoRows : TRUE])]

\* C14 witness: the standby row comes first and is bank 1, the running row is
\* bank 12 with its flag in capitals, and a header line is part of the text
C14_Witness ==
    /\ dec.fn = "sw" /\ dec.done /\ Len(dec.src.rows) = 2
    /\ dec.src.rows[1].bank = 1 /\ LowerText(dec.src.rows[1].run) = TxtNo
    /\ dec.src.rows[2].bank = 12 /\ dec.src.rows[2].run = <<"Y", "E", "S">>
    /\ dec.src.noise # <<>> /\ SwIsHeader(dec.src.noise[1])
    /\ dec.out["running"].bank = 12 /\ dec.out["standby"].bank = 1

(***************************************************************************)
(* Properties of parse_inventory                                           *)
(***************************************************************************)
InvDecoded == dec.fn = "inventory" /\ dec.done

\* the chains of the record set src: index sequences that start at a record
\* with cont-in 0 and in which every next record names the previous as parent
InvChains(src) ==
    {c \in SeqsUpTo(1..Len(src), Len(src)) :
        /\ c # <<>>
        /\ \A i, j \in 1..Len(c) : i # j => c[i] # c[j]
        /\ src[c[1]].cont_in = Str(0)
        /\ \A k \in 2..Len(c) : src[c[k]].cont_in = Str(src[c[k - 1]].id)}

\* every record outside the chain c names a parent id that no record has
InvRestOrphans(src, c) ==
    \A i \in 1..Len(src) :
        (\A k \in 1..Len(c) : c[k] # i) =>
            /\ src[i].cont_in # TxtNAUpper
            /\ src[i].cont_in # Str(0)
            /\ \A j \in 1..Len(src) : src[i].cont_in # Str(src[j].id)

\* the ids met going down a tree that has one child per level (-1 where a
\* level has several children)
RECURSIVE InvSpine(_)
InvSpine(node) ==
    <<node["id"]>> \o
        (IF node["components"] = <<>> THEN <<>>
         ELSE IF Len(node["components"]) = 1 THEN InvSpine(node["components"][1])
         ELSE <<-1>>)

\* C15: a record set with a unique cont_in = 0 record and a chain of N >= 1
\* nested children, all other records naming an absent parent, decodes
\* without error to a tree of depth N under "chassis" that holds the chain's
\* records in order and none of the other records.
C15_InventoryAssembly ==
    InvDecoded =>
        \A c \in InvChains(dec.src) :
            (Len(c) >= 2 /\ InvRestOrphans(dec.src, c)) =>
                /\ dec.out.raised = ""
                /\ dec.out.value # EmptyDict
                /\ InvSpine(dec.out.value.chassis) = [k \in 1..Len(c) |-> dec.src[c[k]].id]

\* the sibling lists of the tree below node
RECURSIVE InvSiblingLists(_)
InvSiblingLists(node) ==
    {node["components"]} \cup
        UNION {InvSiblingLists(node["components"][i]) : i \in 1..Len(node["components"])}

InvHasRelPos(x) == Has(x, "rel_pos") /\ x["rel_pos"] # None

\* C16: in every sibling list of a returned tree the siblings that have a
\* rel_pos are in ascending rel_pos order, and no sibling without a rel_pos
\* comes before a sibling that has one, whatever the rel_pos values are.
C16_SiblingOrder ==
    (InvDecoded /\ dec.out.raised = "" /\ dec.out.value.chassis # EmptyDict) =>
        \A list \in InvSiblingLists(dec.out.value.chassis) :
            \A i, j \in 1..Len(list) :
                i < j =>
                    /\ (InvHasRelPos(list[i]) /\ InvHasRelPos(list[j]))
                          => list[i]["rel_pos"][1] <= list[j]["rel_pos"][1]
                    /\ ~(~InvHasRelPos(list[i]) /\ InvHasRelPos(list[j]))

\* C17: parse_inventory ends its walk and returns a result for every record
\* set, also when a record is its own ancestor through cont_in.
C17_AssemblerTerminates ==
    InvDecoded => dec.out.raised # "RecursionError"

\* C18: a record set without a cont_in cycle (no record has id 0) in which a
\* rel-pos or cont-in value is the sentinel N/A is decoded without an error.
C18_DecodersNeverFail ==
    (/\ InvDecoded
     /\ \A i \in 1..Len(dec.src) : dec.src[i].id # 0
     /\ \E i \in 1..Len(dec.src) : TxtNAUpper \in {dec.src[i].cont_in, dec.src[i].rel_pos})
        => dec.out.raised = ""

\* the nodes of the tree below node, the node itself first
RECURSIVE InvFlat(_)
RECURSIVE InvFlatList(_)
InvFlat(node) ==
    <<node>> \o (IF Has(node, "components") THEN InvFlatList(node["components"]) ELSE <<>>)

InvFlatList(list) ==
    IF list = <<>> THEN <<>> ELSE InvFlat(Head(list)) \o InvFlatList(Tail(list))

\* the records of the record set src that are written with cont-in 0
InvZeroRecords(src) == {i \in 1..Len(src) : src[i].cont_in = Str(0)}

\* a tree was returned
InvReturnedTree ==
    InvDecoded /\ dec.out.raised = "" /\ dec.out.value.chassis # EmptyDict

\* C30: in every returned tree the root is the first record of the input
\* with cont_in 0, every node has a "components" list, every node of a
\* "components" list has the id of the list's owner as cont_in, no id occurs
\* twice in the tree, and no other record with cont_in 0 is in the tree.
C30_TreeShape ==
    InvReturnedTree =>
        LET nodes == InvFlat(dec.out.value.chassis)
            zeros == InvZeroRecords(dec.src)
            first == CHOOSE i \in zeros : \A j \in zeros : i <= j
        IN  /\ zeros # {}
            /\ nodes[1]["id"] = dec.src[first].id
            /\ \A k \in 1..Len(nodes) :
                  /\ Has(nodes[k], "components")
                  /\ \A c \in 1..Len(nodes[k]["components"]) :
                        InvContIn(nodes[k]["components"][c], nodes[k]["id"])
            /\ \A k, l \in 1..Len(nodes) : k # l => nodes[k]["id"] # nodes[l]["id"]
            /\ \A i \in zeros :
                  i # first => \A k \in 1..Len(nodes) : nodes[k]["id"] # dec.src[i].id

\* a returned tree with a node below the root, from a record set in which
\* two records are written with cont-in 0
C30_Witness ==
    /\ InvReturnedTree
    /\ Cardinality(InvZeroRecords(dec.src)) = 2
    /\ Len(InvFlat(dec.out.value.chassis)) = 2

(***************************************************************************)
(* Properties of the identity-indexed decoders                             *)
(***************************************************************************)
\* the fields one line contributes to the record of the slot it names
ShowLineFields(line) ==
    LET st == [config |-> Put(EmptyDict, line.slot, EmptyDict), current_slot |-> line.slot]
    IN  IF line.ns = "ip" THEN ParseIpLine(st, line).config[line.slot]
        ELSE ParseRouteLine(st, line).config[line.slot]

\* the records in which every line is merged into the record of its own slot,
\* a later field replacing an earlier one of the same name
RECURSIVE ShowMerged(_, _, _)
ShowMerged(lines, i, config) ==
    IF i > Len(lines) THEN config
    ELSE LET slot == lines[i].slot
             before == IF Has(config, slot) THEN config[slot] ELSE EmptyDict
         IN  ShowMerged(lines, i + 1, Put(config, slot, ShowLineFields(lines[i]) @@ before))

\* every slot named by a line has its address line (ip-addr, dest) in the text
ShowAddressed(lines) ==
    \A i \in 1..Len(lines) :
        \E j \in 1..Len(lines) :
            lines[j].slot = lines[i].slot /\ lines[j].key \in {"ip-addr", "dest"}

\* C19: when every slot of the text has its address line, all lines naming
\* the same slot contribute to one record: fields accumulate whatever the
\* order of the lines, a later occurrence of a field replaces that field
\* only, and no earlier field of the record is lost.
C19_RecordMerging ==
    (dec.fn \in {"ip", "route"} /\ dec.done /\ ShowAddressed(dec.in)) =>
        dec.out = ShowMerged(dec.in, 1, EmptyDict)

\* the field line i follows the address line of the slot it names, and no
\* later address line of that slot starts the record again
ShowFieldSettled(lines, i) ==
    /\ lines[i].key \notin {"ip-addr", "dest"}
    /\ \E j \in 1..(i - 1) :
          lines[j].slot = lines[i].slot /\ lines[j].key \in {"ip-addr", "dest"}
    /\ \A j \in (i + 1)..Len(lines) :
          ~(lines[j].slot = lines[i].slot /\ lines[j].key \in {"ip-addr", "dest"})

\* C28: every field line is stored in the record of the slot written on
\* that line, slot 0 included: a field line that follows its slot's address
\* line is found in that slot's record, and every field of a record comes
\* from a line that names the record's slot, never from a line naming
\* another slot.
C28_SlotAttribution ==
    (dec.fn \in {"ip", "route"} /\ dec.done) =>
        /\ \A i \in 1..Len(dec.in) :
              ShowFieldSettled(dec.in, i) =>
                  /\ Has(dec.out, dec.in[i].slot)
                  /\ \A f \in DOMAIN ShowLineFields(dec.in[i]) :
                        Has(dec.out[dec.in[i].slot], f)
        /\ \A m \in DOMAIN dec.out :
              \A f \in DOMAIN dec.out[m] :
                  \E j \in 1..Len(dec.in) :
                      /\ dec.in[j].slot = m
                      /\ Has(ShowLineFields(dec.in[j]), f)
                      /\ ShowLineFields(dec.in[j])[f] = dec.out[m][f]

(***************************************************************************)
(* Properties of parse_rollback_status                                     *)
(***************************************************************************)
\* the "rollback timeout" lines of the decoded output
RbStatusTimeoutRows == {i \in 1..Len(dec.src) : Has(dec.src[i], "value")}

\* the text is an optional sign followed by decimal digits
RbIsInteger(v) ==
    LET digits == IF Len(v) >= 1 /\ v[1] \in {"+", "-"} THEN Tail(v) ELSE v
    IN  digits # <<>> /\ \A i \in 1..Len(digits) : IsDigit(digits[i])

RbIntegerOf(v) == IF v[1] = "-" THEN 0 - DigitsVal(Tail(v)) ELSE DigitsVal(v)

\* C20: an output with one "rollback timeout" line decodes to inactive
\* without timeout for the value "not started", to active with timeout n for
\* an integer value n, and to inactive without timeout for any other value;
\* for every output, active is true exactly when the timeout is an integer.
C20_RollbackStatusDecoding ==
    (dec.fn = "rollback" /\ dec.done) =>
        /\ dec.out.active <=> dec.out.timeout # None
        /\ \A i \in RbStatusTimeoutRows :
              RbStatusTimeoutRows = {i} =>
                  LET v == dec.src[i].value
                  IN  dec.out = IF v # TxtNotStarted /\ RbIsInteger(v)
                                THEN [active |-> TRUE, timeout |-> Some(RbIntegerOf(v))]
                                ELSE [active |-> FALSE, timeout |-> None]

\* C20 witness: the one "rollback timeout" line carries 9000, next to a line
\* of another kind, and the result is active with timeout 9000
C20_Witness ==
    /\ dec.fn = "rollback" /\ dec.done /\ Len(dec.src) = 2
    /\ \E i \in RbStatusTimeoutRows :
          RbStatusTimeoutRows = {i} /\ dec.src[i].value = <<"9", "0", "0", "0">>
    /\ dec.out = [active |-> TRUE, timeout |-> Some(9000)]

(***************************************************************************)
(* Properties of parse_system_info                                         *)
(***************************************************************************)
\* the field name of a key: key.replace("-", "_") as a string
SysFieldOf(key) == IF key = <<"t", "e", "m", "p", "e", "r", "a", "t", "u", "r", "e">> THEN "temperature" ELSE IF key = <<"c", "l", "i", "-", "t", "i", "m", "e", "o", "u", "t">> THEN "cli_timeout" ELSE "name"

\* C21: a line carrying an integer-typed field (here temperature or
\* cli-timeout, each on one line of the text) decodes to the integer denoted
\* by the whole value token, negative values included, and the field is
\* absent when the token is not a number, also when it only starts with
\* digits.
C21_NumericDecoding ==
    (dec.fn = "system" /\ dec.done) =>
        \A i \in 1..Len(dec.src) :
            LET field == SysFieldOf(dec.src[i].key)
                v == dec.src[i].value
            IN  (/\ field \in SysIntFields
                 /\ \A j \in 1..Len(dec.src) : j # i => dec.src[j].key # dec.src[i].key) =>
                    IF RbIsInteger(v)
                    THEN Has(dec.out, field) /\ dec.out[field] = RbIntegerOf(v)
                    ELSE ~Has(dec.out, field)

(***************************************************************************)
(* Properties of the conversion helpers                                    *)
(***************************************************************************)
HelperDone == dec.fn \in {"normalize", "int", "float", "bool"} /\ dec.done

\* the core of the value is empty, or n/a or default in some letter case
HelperSentinel == LowerText(dec.src.core) \in {<<>>, <<"n", "/", "a">>, <<"d", "e", "f", "a", "u", "l", "t">>}

CfgRightTrimmed(line) ==
    LET ends == {n \in 0..Len(line) : n = 0 \/ ~IsSpace(line[n])}
    IN  SubSeq(line, 1, CHOOSE n \in ends : \A k \in ends : k <= n)

\* the lines of the input, right-trimmed, without the empty ones
CfgExpectedLines(text) ==
    LET split == SplitLines(text)
    IN  SelectSeq([i \in 1..Len(split) |-> CfgRightTrimmed(split[i])], LAMBDA l : l # <<>>)

FactsAskedAll == dec.src = <<>> \/ \E i \in 1..Len(dec.src) : dec.src[i] = "all"

\* C24: when gather_subset contains 'all', the module gathers every subset
\* except config and config_startup: system, software, ip, route, inventory
\* and rf.
C24_FactsSubsetAll ==
    (dec.fn = "facts" /\ dec.pc = "exited" /\ FactsAskedAll) =>
        {dec.ran[i] : i \in 1..Len(dec.ran)} =
            {"system", "software", "ip", "route", "inventory", "rf"}

(***************************************************************************)
(* Further properties of siklu_config                                      *)
(***************************************************************************)
\* C25: the commands sent for one item are a prefix of [read slot, set slot,
\* read slot]; the "set" is sent only after a read that differed from the
\* item, the verifying read only after a "set" that the device acknowledged
\* and whose acknowledgement was accepted, and nothing after a rejected
\* acknowledgement.
C25_CommandOrder ==
    \A k \in 1..Len(trace) :
        LET c == trace[k].cmds
            it == items[k]
        IN  /\ Len(c) <= 3
            /\ \A i \in 1..Len(c) :
                  c[i] = IF i = 2 THEN [op |-> "set", type |-> it.type, slot |-> it.slot,
                                        entry |-> EntryOf(it)]
                         ELSE [op |-> "show", type |-> it.type, slot |-> it.slot]
            /\ Len(c) >= 2 => trace[k].r1 = "read" /\ ~ReadEquals(trace[k].cur1, it)
            /\ Len(c) = 3 => trace[k].ack \in {"own", "other"} /\ trace[k].ackOk
            /\ (trace[k].ack # "none" /\ ~trace[k].ackOk) => Len(c) = 2

\* C25 witness: one item went through read, set and verifying read, and for
\* another the device answered the "set" with an error and nothing followed
C25_Witness ==
    /\ \E k \in 1..Len(results) : Len(trace[k].cmds) = 3 /\ trace[k].r2 = "read"
    /\ \E k \in 1..Len(results) : trace[k].ack = "error" /\ Len(trace[k].cmds) = 2

\* the item has a type and is rejected by main's dispatch or by its validator:
\* unknown type, a missing field, slot < 0, prefix_len outside 0..32, or an
\* ip vlan outside 0..4094
ItemRejected(item) ==
    /\ TypeOf(item) # ""
    /\ \/ TypeOf(item) \notin {"ip", "route"}
       \/ \E f \in (IF item.type = "ip" THEN {"slot", "ip_address", "prefix_len", "vlan"}
                     ELSE {"slot", "dest", "prefix_len", "next_hop"}) : f \notin DOMAIN item
       \/ item.slot < 0
       \/ item.prefix_len < 0 \/ item.prefix_len > 32
       \/ item.type = "ip" /\ (item.vlan < 0 \/ item.vlan > 4094)

\* C26: for an item rejected by validation no command is sent to the device,
\* and the result at the item's index is failed=true, changed=false.
C26_ValidationGate ==
    \A k \in 1..Len(trace) :
        ItemRejected(items[k]) =>
            /\ trace[k].cmds = <<>>
            /\ k <= Len(results)
            /\ results[k].index = k - 1
            /\ results[k].failed /\ ~results[k].changed

\* C26 witness: an ip item with vlan 4095 was rejected after an item that
\* was applied, and the batch ended
C26_Witness ==
    /\ pc = "exited" /\ Len(results) = 2
    /\ results[1].changed
    /\ TypeOf(items[2]) = "ip" /\ "vlan" \in DOMAIN items[2] /\ items[2].vlan = 4095
    /\ results[2].failed

\* C27: when the module has ended with at least one item result and none of
\* them is failed, it reports success with changed = true exactly when some
\* item result is changed; when some item result is failed, it reports
\* failure together with the complete results list.
C27_BatchOutcome ==
    (pc = "exited" /\ results # <<>>) =>
        IF \E k \in 1..Len(results) : results[k].failed
        THEN out.status = "failed" /\ out.hasResults /\ Len(results) = Len(items)
        ELSE /\ out.status = "ok"
             /\ out.changed <=> \E k \in 1..Len(results) : results[k].changed

\* C29: every item result with failed=true has changed=false, also when the
\* "set" was stored and acknowledged and only the verifying read mismatched
\* or failed.
C29_FailedImpliesUnchanged ==
    \A k \in 1..Len(results) : results[k].failed => ~results[k].changed

\* C29 witness: the device stored and acknowledged the "set" of an item whose
\* verifying read raised, and of an item whose verifying read differed; both
\* results are failed
C29_Witness ==
    /\ \E k \in 1..Len(results) :
          trace[k].stored /\ trace[k].ackOk /\ trace[k].r2 = "tfail" /\ results[k].failed
    /\ \E k \in 1..Len(results) :
          /\ trace[k].stored /\ trace[k].ackOk /\ trace[k].r2 = "read"
          /\ ~ReadEquals(trace[k].cur2, items[k]) /\ results[k].failed

====
